---- MODULE Spec2Model ----
(***************************************************************************)
(* Verification model of the KILT SDK message envelope                     *)
(* (src/messaging/Message.ts): construction, encrypt(), in-transit         *)
(* modification of the wire envelope, and Message.decrypt with its         *)
(* hash / signature / decryption / parse / owner checks.                   *)
(*                                                                         *)
(* Strings are sequences of natural numbers (characters), so that the      *)
(* hash input  message + nonce + createdAt  is a real concatenation.       *)
(* JavaScript values are records                                           *)
(*   [syntax, type, shape, owners, opt]                                    *)
(* that keep what the code reads of a value: whether it is an object, an   *)
(* array, a scalar or null; its kind tag; whether its content has the      *)
(* properties the owner check dereferences; the owner addresses declared   *)
(* by the content; and the state of an optional property/position.         *)
(***************************************************************************)
EXTENDS Integers, Sequences, FiniteSets, TLC

\* ------------------------------------------------------------------ bounds
MaxClaims == 2      \* longest list of attested claims in a classic submission
MaxEncrypt == 2     \* encrypt() calls on one Message
MaxTamper == 1      \* modifications of the envelope in transit

\* -------------------------------------------------------------- identities
Ids == {"alice", "bob", "mallory"}

AddressOf == [alice |-> "5alice", bob |-> "5bob", mallory |-> "5mallory"]

BoxPublicKeyOf == [alice |-> "0xboxalice", bob |-> "0xboxbob", mallory |-> "0xboxmallory"]

Addresses == {AddressOf[i] : i \in Ids}

BoxPublicKeys == {BoxPublicKeyOf[i] : i \in Ids}

\* character codes used when a key or an address is written into a string
KeyCode == [k \in BoxPublicKeys |->
              IF k = "0xboxalice" THEN 1 ELSE IF k = "0xboxbob" THEN 2 ELSE 3]

AddrCode == [a \in Addresses |->
              IF a = "5alice" THEN 1 ELSE IF a = "5bob" THEN 2 ELSE 3]

\* ------------------------------------------------------- MessageBodyType
MessageBodyType ==
  << "request-terms", "submit-terms", "reject-terms",
     "initiate-attestation",
     "request-attestation-for-claim", "submit-attestation-for-claim",
     "reject-attestation-for-claim",
     "request-claims-for-ctypes", "submit-claims-for-ctypes-classic",
     "submit-claims-for-ctypes-pe", "accept-claims-for-ctypes",
     "reject-claims-for-ctypes",
     "request-accept-delegation", "submit-accept-delegation",
     "reject-accept-delegation", "inform-create-delegation" >>

BodyTypes == {MessageBodyType[i] : i \in 1..Len(MessageBodyType)}

REQUEST_ATTESTATION_FOR_CLAIM == "request-attestation-for-claim"
SUBMIT_ATTESTATION_FOR_CLAIM == "submit-attestation-for-claim"
SUBMIT_CLAIMS_FOR_CTYPES_CLASSIC == "submit-claims-for-ctypes-classic"

\* a tag that is not in the enumeration
UnknownKind == "not-a-real-kind"

TypeCode(t) ==
  IF t \in BodyTypes
    THEN CHOOSE i \in 1..Len(MessageBodyType) : MessageBodyType[i] = t
    ELSE Len(MessageBodyType) + 1

\* ------------------------------------------------------ JavaScript values
Syntaxes == <<"object", "array", "scalar", "null", "invalid", "empty">>

Shapes == <<"ok", "malformed">>

Opts == <<"value", "undefined", "null">>

CodeIn(seq, x) == CHOOSE i \in 1..Len(seq) : seq[i] = x

JsValue(syntax, type, shape, owners, opt) ==
  [syntax |-> syntax, type |-> type, shape |-> shape, owners |-> owners, opt |-> opt]

\* the value carried by a failed call / an absent body
NoValue == JsValue("null", UnknownKind, "malformed", <<>>, "undefined")


\* ------------------------------------------------------------------ JSON
\* JSON.stringify: the text of a value.  A property holding undefined is
\* left out of an object (reading it back gives undefined again), whereas an
\* undefined element of an array is written as null.
JSON_stringify(v) ==
  [text |-> IF v.syntax = "array" /\ v.opt = "undefined"
              THEN [v EXCEPT !.opt = "null"]
              ELSE v]

\* JSON.parse: throws a SyntaxError on text that is not JSON (the empty
\* string included), otherwise returns the value the text denotes.
JSON_parse(t) ==
  IF t.text.syntax \in {"invalid", "empty"}
    THEN [ok |-> FALSE, value |-> NoValue]
    ELSE [ok |-> TRUE, value |-> t.text]

\* ---------------------------------------------------------------- strings
RECURSIVE NumToStr(_)
\* String(n): the decimal digits of a non-negative integer
NumToStr(n) == IF n < 10 THEN <<n>> ELSE NumToStr(n \div 10) \o <<n % 10>>

\* the characters of a JSON text
PlainCode(t) ==
  LET v == t.text IN
  << CodeIn(Syntaxes, v.syntax), TypeCode(v.type), CodeIn(Shapes, v.shape),
     CodeIn(Opts, v.opt), Len(v.owners) >>
  \o [i \in 1..Len(v.owners) |-> AddrCode[v.owners[i]]]

IsPlainCode(s) ==
  /\ Len(s) >= 5
  /\ s[1] \in 1..Len(Syntaxes)
  /\ s[2] \in 1..(Len(MessageBodyType) + 1)
  /\ s[3] \in 1..Len(Shapes)
  /\ s[4] \in 1..Len(Opts)
  /\ Len(s) = 5 + s[5]
  /\ \A i \in 6..Len(s) : s[i] \in {AddrCode[a] : a \in Addresses}

PlainDecode(s) ==
  [text |->
    JsValue(Syntaxes[s[1]],
            IF s[2] <= Len(MessageBodyType) THEN MessageBodyType[s[2]] ELSE UnknownKind,
            Shapes[s[3]],
            [i \in 1..s[5] |-> CHOOSE a \in Addresses : AddrCode[a] = s[5 + i]],
            Opts[s[4]])]

\* ---------------------------------------------------------------- Crypto
\* Crypto.hashStr: a collision-resistant digest of a string
hashStr(s) == [digest |-> s]

\* Identity.signStr: the identity's signature over a hash
signStr(identity, hash) == [signer |-> identity, over |-> hash]

\* signature verification against an address
verify(hash, signature, address) ==
  /\ signature.over = hash
  /\ AddressOf[signature.signer] = address

\* DataUtils.validateSignature: throws unless the signature verifies
validateSignature(hash, signature, address) ==
  IF verify(hash, signature, address) THEN "ok" ELSE "ERROR_SIGNATURE_UNVERIFIABLE"

\* Identity.encryptAsymmetricAsStr: authenticated public-key encryption of
\* a text under the sender's secret box key, the receiver's public box key
\* and a fresh nonce
encryptAsymmetricAsStr(sender, t, receiverBoxPublicKey, nonce) ==
  [box |-> << KeyCode[BoxPublicKeyOf[sender]], KeyCode[receiverBoxPublicKey],
              Len(nonce) >> \o nonce \o PlainCode(t),
   nonce |-> nonce]

\* Identity.decryptAsymmetricAsStr: the text, or false when the box does not
\* open under the receiver's secret key, the given public key and the nonce
\* (the two key pairs of a box share one secret, so either side opens it)
decryptAsymmetricAsStr(receiver, ea, senderBoxPublicKey) ==
  LET b == ea.box
      n == Len(ea.nonce)
      opens == /\ Len(b) >= 3 + n
               /\ \/ /\ b[1] = KeyCode[senderBoxPublicKey]
                     /\ b[2] = KeyCode[BoxPublicKeyOf[receiver]]
                  \/ /\ b[1] = KeyCode[BoxPublicKeyOf[receiver]]
                     /\ b[2] = KeyCode[senderBoxPublicKey]
               /\ b[3] = n
               /\ SubSeq(b, 4, 3 + n) = ea.nonce
               /\ IsPlainCode(SubSeq(b, 4 + n, Len(b)))
  IN IF opens
       THEN [ok |-> TRUE, text |-> PlainDecode(SubSeq(b, 4 + n, Len(b)))]
       ELSE [ok |-> FALSE, text |-> [text |-> NoValue]]

\* !decoded : false and the empty string are both falsy
Falsy(decoded) == ~decoded.ok \/ decoded.text.text.syntax = "empty"


\* --------------------------------------------------------------- Message
\* body.type as the switch of ensureOwnerIsSender reads it: only an object
\* has a type property, any other value yields undefined
TypeProperty(body) == IF body.syntax = "object" THEN body.type ELSE "undefined"

\* ensureOwnerIsSender comparing only the first claim of a classic submission
ensureOwnerIsSender_FirstClaimOnly(body, senderAddress) ==
  IF body.syntax = "null" THEN "TypeError"
  ELSE IF TypeProperty(body) \in {REQUEST_ATTESTATION_FOR_CLAIM,
                                  SUBMIT_ATTESTATION_FOR_CLAIM} THEN
    IF body.shape = "malformed" THEN "TypeError"
    ELSE IF body.owners[1] # senderAddress THEN "ERROR_IDENTITY_MISMATCH"
    ELSE "ok"
  ELSE IF TypeProperty(body) = SUBMIT_CLAIMS_FOR_CTYPES_CLASSIC THEN
    IF body.shape = "malformed" THEN "TypeError"
    ELSE IF Len(body.owners) > 0 /\ body.owners[1] # senderAddress
      THEN "ERROR_IDENTITY_MISMATCH"
    ELSE "ok"
  ELSE "ok"

\* ensureOwnerIsSender comparing the owner of a privacy-enhanced submission too
ensureOwnerIsSender_ChecksPE(body, senderAddress) ==
  IF body.syntax = "null" THEN "TypeError"
  ELSE IF TypeProperty(body) \in {REQUEST_ATTESTATION_FOR_CLAIM,
                                  SUBMIT_ATTESTATION_FOR_CLAIM,
                                  "submit-claims-for-ctypes-pe"} THEN
    IF body.shape = "malformed" THEN "TypeError"
    ELSE IF body.owners[1] # senderAddress THEN "ERROR_IDENTITY_MISMATCH"
    ELSE "ok"
  ELSE IF TypeProperty(body) = SUBMIT_CLAIMS_FOR_CTYPES_CLASSIC THEN
    IF body.shape = "malformed" THEN "TypeError"
    ELSE IF \E i \in 1..Len(body.owners) : body.owners[i] # senderAddress
      THEN "ERROR_IDENTITY_MISMATCH"
    ELSE "ok"
  ELSE "ok"

\* Message.ensureOwnerIsSender({body, senderAddress}): "ok" when it returns,
\* otherwise the error it throws
ensureOwnerIsSender(body, senderAddress) ==
  IF body.syntax = "null" THEN "TypeError"
  ELSE IF TypeProperty(body) = REQUEST_ATTESTATION_FOR_CLAIM THEN
    IF body.shape = "malformed" THEN "TypeError"
    ELSE IF body.owners[1] # senderAddress THEN "ERROR_IDENTITY_MISMATCH"
    ELSE "ok"
  ELSE IF TypeProperty(body) = SUBMIT_ATTESTATION_FOR_CLAIM THEN
    IF body.shape = "malformed" THEN "TypeError"
    ELSE IF body.owners[1] # senderAddress THEN "ERROR_IDENTITY_MISMATCH"
    ELSE "ok"
  ELSE IF TypeProperty(body) = SUBMIT_CLAIMS_FOR_CTYPES_CLASSIC THEN
    IF body.shape = "malformed" THEN "TypeError"
    ELSE IF \E i \in 1..Len(body.owners) : body.owners[i] # senderAddress
      THEN "ERROR_IDENTITY_MISMATCH"
    ELSE "ok"
  ELSE "ok"

\* ensureHashAndSignature without the comparison of the recomputed hash
ensureHashAndSignature_SignatureOnly(encrypted, senderAddress) ==
  [calls |-> <<"hashStr", "validateSignature">>,
   error |-> validateSignature(encrypted.hash, encrypted.signature, senderAddress)]

\* ensureHashAndSignature dropping the outcome of the signature validation
ensureHashAndSignature_UncheckedSignature(encrypted, senderAddress) ==
  IF hashStr(encrypted.message \o encrypted.nonce \o NumToStr(encrypted.createdAt))
       # encrypted.hash
    THEN [calls |-> <<"hashStr">>, error |-> "ERROR_NONCE_HASH_INVALID"]
    ELSE [calls |-> <<"hashStr", "validateSignature">>, error |-> "ok"]

\* ensureHashAndSignature with the messageId, when there is one, in the hash input
ensureHashAndSignature_HashesMessageId(encrypted, senderAddress) ==
  IF hashStr(encrypted.message \o encrypted.nonce \o NumToStr(encrypted.createdAt)
             \o (IF encrypted.messageId = "undefined" THEN <<>> ELSE <<1>>))
       # encrypted.hash
    THEN [calls |-> <<"hashStr">>, error |-> "ERROR_NONCE_HASH_INVALID"]
    ELSE [calls |-> <<"hashStr", "validateSignature">>,
          error |-> validateSignature(encrypted.hash, encrypted.signature, senderAddress)]

\* Message.ensureHashAndSignature(encrypted, senderAddress): the calls it
\* makes and "ok" or the error it throws
ensureHashAndSignature(encrypted, senderAddress) ==
  IF hashStr(encrypted.message \o encrypted.nonce \o NumToStr(encrypted.createdAt))
       # encrypted.hash
    THEN [calls |-> <<"hashStr">>, error |-> "ERROR_NONCE_HASH_INVALID"]
    ELSE [calls |-> <<"hashStr", "validateSignature">>,
          error |-> validateSignature(encrypted.hash, encrypted.signature, senderAddress)]

\* the result of a call that threw: nothing is returned
Thrown(calls, error) ==
  [status |-> "error", error |-> error, calls |-> calls, returned |-> <<>>]

\* {...encrypted, body}
WithBody(encrypted, body) ==
  [messageId |-> encrypted.messageId, receivedAt |-> encrypted.receivedAt,
   message |-> encrypted.message, nonce |-> encrypted.nonce,
   createdAt |-> encrypted.createdAt, hash |-> encrypted.hash,
   signature |-> encrypted.signature,
   receiverAddress |-> encrypted.receiverAddress,
   senderAddress |-> encrypted.senderAddress,
   senderBoxPublicKey |-> encrypted.senderBoxPublicKey,
   body |-> body]

\* decrypt returning the parsed message without the owner check
decrypt_SkipsOwnerCheck(encrypted, receiver) ==
  LET checked == ensureHashAndSignature(encrypted, encrypted.senderAddress)
      ea == [box |-> encrypted.message, nonce |-> encrypted.nonce]
      decoded == decryptAsymmetricAsStr(receiver, ea, encrypted.senderBoxPublicKey)
      parsed == JSON_parse(decoded.text)
      c3 == checked.calls \o <<"decryptAsymmetricAsStr">>
      c4 == c3 \o <<"JSON.parse">>
  IN IF checked.error # "ok" THEN Thrown(checked.calls, checked.error)
     ELSE IF Falsy(decoded) THEN Thrown(c3, "ERROR_DECODING_MESSAGE")
     ELSE IF ~parsed.ok THEN Thrown(c4, "ERROR_PARSING_MESSAGE")
     ELSE [status |-> "ok", error |-> "none", calls |-> c4,
           returned |-> <<WithBody(encrypted, parsed.value)>>]

\* decrypt opening the box before the hash and the signature are checked
decrypt_DecryptsFirst(encrypted, receiver) ==
  LET ea == [box |-> encrypted.message, nonce |-> encrypted.nonce]
      decoded == decryptAsymmetricAsStr(receiver, ea, encrypted.senderBoxPublicKey)
      checked == ensureHashAndSignature(encrypted, encrypted.senderAddress)
      parsed == JSON_parse(decoded.text)
      owner == ensureOwnerIsSender(parsed.value, encrypted.senderAddress)
      c1 == <<"decryptAsymmetricAsStr">>
      c3 == c1 \o checked.calls
      c4 == c3 \o <<"JSON.parse">>
      c5 == c4 \o <<"ensureOwnerIsSender">>
  IN IF Falsy(decoded) THEN Thrown(c1, "ERROR_DECODING_MESSAGE")
     ELSE IF checked.error # "ok" THEN Thrown(c3, checked.error)
     ELSE IF ~parsed.ok THEN Thrown(c4, "ERROR_PARSING_MESSAGE")
     ELSE IF owner # "ok" THEN Thrown(c5, "ERROR_PARSING_MESSAGE")
     ELSE [status |-> "ok", error |-> "none", calls |-> c5,
           returned |-> <<WithBody(encrypted, parsed.value)>>]

\* a decrypt that refuses an envelope addressed to somebody else
decrypt_ChecksReceiverAddress(encrypted, receiver) ==
  LET checked == ensureHashAndSignature(encrypted, encrypted.senderAddress)
      ea == [box |-> encrypted.message, nonce |-> encrypted.nonce]
      decoded == decryptAsymmetricAsStr(receiver, ea, encrypted.senderBoxPublicKey)
      parsed == JSON_parse(decoded.text)
      owner == ensureOwnerIsSender(parsed.value, encrypted.senderAddress)
      c3 == checked.calls \o <<"decryptAsymmetricAsStr">>
      c4 == c3 \o <<"JSON.parse">>
      c5 == c4 \o <<"ensureOwnerIsSender">>
  IN IF checked.error # "ok" THEN Thrown(checked.calls, checked.error)
     ELSE IF encrypted.receiverAddress # AddressOf[receiver]
       THEN Thrown(checked.calls, "ERROR_IDENTITY_MISMATCH")
     ELSE IF Falsy(decoded) THEN Thrown(c3, "ERROR_DECODING_MESSAGE")
     ELSE IF ~parsed.ok THEN Thrown(c4, "ERROR_PARSING_MESSAGE")
     ELSE IF owner # "ok" THEN Thrown(c5, "ERROR_PARSING_MESSAGE")
     ELSE [status |-> "ok", error |-> "none", calls |-> c5,
           returned |-> <<WithBody(encrypted, parsed.value)>>]

\* Message.decrypt(encrypted, receiver): the calls made, in order, and either
\* the returned IMessage ({...encrypted, body}) or the error thrown
decrypt(encrypted, receiver) ==
  LET checked == ensureHashAndSignature(encrypted, encrypted.senderAddress)
      ea == [box |-> encrypted.message, nonce |-> encrypted.nonce]
      decoded == decryptAsymmetricAsStr(receiver, ea, encrypted.senderBoxPublicKey)
      parsed == JSON_parse(decoded.text)
      owner == ensureOwnerIsSender(parsed.value, encrypted.senderAddress)
      c3 == checked.calls \o <<"decryptAsymmetricAsStr">>
      c4 == c3 \o <<"JSON.parse">>
      c5 == c4 \o <<"ensureOwnerIsSender">>
  IN IF checked.error # "ok" THEN Thrown(checked.calls, checked.error)
     ELSE IF Falsy(decoded) THEN Thrown(c3, "ERROR_DECODING_MESSAGE")
     ELSE IF ~parsed.ok THEN Thrown(c4, "ERROR_PARSING_MESSAGE")
     ELSE IF owner # "ok" THEN Thrown(c5, "ERROR_PARSING_MESSAGE")
     ELSE [status |-> "ok", error |-> "none", calls |-> c5,
           returned |-> <<WithBody(encrypted, parsed.value)>>]

\* MessageUtils.decompressMessage([tag, content]): the structured body of a
\* compressed body, or the error for a tag outside MessageBodyType
decompressMessage(body) ==
  IF body.type \in BodyTypes
    THEN [ok |-> TRUE, value |-> [body EXCEPT !.syntax = "object"]]
    ELSE [ok |-> FALSE, value |-> NoValue]


\* the constructor hashing message + nonce without createdAt
NewMessage_HashWithoutCreatedAt(body, sender, receiver, now, nonce) ==
  LET thisBody == IF body.syntax = "array"
                    THEN decompressMessage(body)
                    ELSE [ok |-> TRUE, value |-> body]
      encryptedMessage ==
        encryptAsymmetricAsStr(sender, JSON_stringify(body),
                               BoxPublicKeyOf[receiver], nonce)
      hashInput == encryptedMessage.box \o encryptedMessage.nonce
  IN IF ~thisBody.ok THEN <<>>
     ELSE << [messageId |-> "undefined", receivedAt |-> <<>>,
              body |-> thisBody.value,
              createdAt |-> now,
              receiverAddress |-> AddressOf[receiver],
              senderAddress |-> AddressOf[sender],
              senderBoxPublicKey |-> BoxPublicKeyOf[sender],
              message |-> encryptedMessage.box,
              nonce |-> encryptedMessage.nonce,
              hash |-> hashStr(hashInput),
              signature |-> signStr(sender, hashStr(hashInput))] >>

\* new Message(body, sender, receiver) at time now, the encryption drawing
\* nonce: the fields of the object, or no object when decompression throws
NewMessage(body, sender, receiver, now, nonce) ==
  LET thisBody == IF body.syntax = "array"
                    THEN decompressMessage(body)
                    ELSE [ok |-> TRUE, value |-> body]
      encryptedMessage ==
        encryptAsymmetricAsStr(sender, JSON_stringify(body),
                               BoxPublicKeyOf[receiver], nonce)
      hashInput == encryptedMessage.box \o encryptedMessage.nonce \o NumToStr(now)
  IN IF ~thisBody.ok THEN <<>>
     ELSE << [messageId |-> "undefined", receivedAt |-> <<>>,
              body |-> thisBody.value,
              createdAt |-> now,
              receiverAddress |-> AddressOf[receiver],
              senderAddress |-> AddressOf[sender],
              senderBoxPublicKey |-> BoxPublicKeyOf[sender],
              message |-> encryptedMessage.box,
              nonce |-> encryptedMessage.nonce,
              hash |-> hashStr(hashInput),
              signature |-> signStr(sender, hashStr(hashInput))] >>

\* encrypt returning the whole object, plaintext body included
encrypt_SpreadsThis(this) == this

\* Message.encrypt(): the wire envelope of a Message
encrypt(this) ==
  [messageId |-> this.messageId,
   receivedAt |-> this.receivedAt,
   message |-> this.message,
   nonce |-> this.nonce,
   createdAt |-> this.createdAt,
   hash |-> this.hash,
   signature |-> this.signature,
   receiverAddress |-> this.receiverAddress,
   senderAddress |-> this.senderAddress,
   senderBoxPublicKey |-> this.senderBoxPublicKey]


\* ---------------------------------------------------------------- inputs
\* owners that the claims of a classic submission may declare
ClaimOwners == {AddressOf["alice"], AddressOf["bob"]}

ClaimOwnerLists == UNION {[1..k -> ClaimOwners] : k \in 0..MaxClaims}

\* well-typed structured bodies ({type, content})
StructuredBodies ==
  {JsValue("object", REQUEST_ATTESTATION_FOR_CLAIM, "ok", <<a>>, o) :
      a \in Addresses, o \in {"value", "undefined"}}
  \cup {JsValue("object", SUBMIT_ATTESTATION_FOR_CLAIM, "ok", <<a>>, "value") :
      a \in Addresses}
  \cup {JsValue("object", SUBMIT_CLAIMS_FOR_CTYPES_CLASSIC, "ok", l, "value") :
      l \in ClaimOwnerLists}
  \cup {JsValue("object", "request-terms", "ok", <<AddressOf["bob"]>>, o) :
      o \in {"value", "undefined"}}
  \cup {JsValue("object", "submit-claims-for-ctypes-pe", "ok", <<a>>, "value") :
      a \in ClaimOwners}
  \cup {JsValue("object", "inform-create-delegation", "ok", <<>>, "value")}

\* their compressed-array forms ([type, compressedContent]), and an array
\* with a tag outside the enumeration
CompressedBodies ==
  {[b EXCEPT !.syntax = "array"] : b \in StructuredBodies}
  \cup {JsValue("array", UnknownKind, "ok", <<>>, "value")}

\* texts that can be encrypted without going through new Message
ForgedTexts ==
  {[text |-> JsValue(x, UnknownKind, "malformed", <<>>, "value")] :
      x \in {"invalid", "empty", "null", "scalar"}}
  \cup {[text |-> JsValue("object", t, "malformed", <<>>, "value")] :
      t \in {UnknownKind, REQUEST_ATTESTATION_FOR_CLAIM,
             SUBMIT_CLAIMS_FOR_CTYPES_CLASSIC, "request-terms"}}
  \cup {[text |-> JsValue("object", SUBMIT_ATTESTATION_FOR_CLAIM, "ok", <<a>>, "value")] :
      a \in ClaimOwners}

\* bodies handed to ensureOwnerIsSender directly: the owner-bound kinds
\* well-typed, every other kind with any owner or account and any content
OwnerCheckBodies ==
  StructuredBodies
  \cup {JsValue("object", SUBMIT_CLAIMS_FOR_CTYPES_CLASSIC, "ok", l, "value") :
      l \in UNION {[1..k -> Addresses] : k \in 0..MaxClaims}}
  \cup {JsValue("object", t, shape, <<a>>, "value") :
      t \in BodyTypes \ {REQUEST_ATTESTATION_FOR_CLAIM, SUBMIT_ATTESTATION_FOR_CLAIM,
                         SUBMIT_CLAIMS_FOR_CTYPES_CLASSIC},
      shape \in {"ok", "malformed"},
      a \in Addresses}

Senders == {"alice", "bob"}

Receivers == {"alice", "bob"}

\* values of Date.now()
Times == {2, 12}

\* nonces drawn by the encryption
Nonces == {<<7>>, <<7, 1>>}

\* a Message object that has not been constructed yet
NoEnvelope ==
  [args |-> <<>>, msg |-> <<>>, sent |-> <<>>, result |-> <<>>, compressed |-> <<>>]

\* ----------------------------------------------------------------- state
VARIABLES
  phase,      \* "new", "constructed", "forged", "failed", "done"
  args,       \* <<>> or <<the arguments of new Message>>
  msg,        \* <<>> or <<the Message object>>
  ctor,       \* <<>> or <<the Message object as the constructor left it>>
  encCount,   \* number of encrypt() calls made
  sent,       \* <<>> or <<the envelope as the sender emitted it>>
  wire,       \* <<>> or <<the envelope in transit>>
  tampers,    \* number of modifications made in transit
  result,     \* <<>> or <<the outcome of Message.decrypt>>
  ownerCheck, \* <<>> or <<a direct call of Message.ensureOwnerIsSender>>
  codec,      \* the calls made to the compression codecs, oldest first
  claimCalls, \* the calls made to the constructors of Claim, oldest first
  envelopes,  \* two Message objects handled side by side
  promise     \* <<>> or <<the state of a subscription promise>>

vars == <<phase, args, msg, ctor, encCount, sent, wire, tampers, result, ownerCheck, codec, claimCalls, envelopes, promise>>

Init ==
  /\ phase = "new"
  /\ args = <<>>
  /\ msg = <<>>
  /\ ctor = <<>>
  /\ encCount = 0
  /\ sent = <<>>
  /\ wire = <<>>
  /\ tampers = 0
  /\ result = <<>>
  /\ ownerCheck = <<>>
  /\ codec = <<>>
  /\ claimCalls = <<>>
  /\ envelopes = <<NoEnvelope, NoEnvelope>>
  /\ promise = <<>>

\* new Message(body, sender, receiver)
Construct ==
  /\ phase = "new"
  /\ \E body \in StructuredBodies \cup CompressedBodies,
        sender \in Senders, receiver \in Receivers,
        now \in Times, nonce \in Nonces :
       LET m == NewMessage(body, sender, receiver, now, nonce) IN
         /\ args' = <<[body |-> body, sender |-> sender, receiver |-> receiver]>>
         /\ msg' = m
         /\ ctor' = m
         /\ phase' = IF m = <<>> THEN "failed" ELSE "constructed"
  /\ UNCHANGED <<encCount, sent, wire, tampers, result, ownerCheck, codec, claimCalls, envelopes, promise>>

\* a carrier attaches the transport metadata to the Message
AttachMetadata ==
  /\ phase = "constructed"
  /\ msg[1].messageId = "undefined"
  /\ msg' = <<[msg[1] EXCEPT !.messageId = "id-1", !.receivedAt = <<5>>]>>
  /\ UNCHANGED <<phase, args, ctor, encCount, sent, wire, tampers, result, ownerCheck, codec, claimCalls, envelopes, promise>>

\* message.encrypt(), the result being put in transit
Encrypt ==
  /\ phase = "constructed"
  /\ encCount < MaxEncrypt
  /\ tampers = 0
  /\ encCount' = encCount + 1
  /\ sent' = <<encrypt(msg[1])>>
  /\ wire' = <<encrypt(msg[1])>>
  /\ UNCHANGED <<phase, args, msg, ctor, tampers, result, ownerCheck, codec, claimCalls, envelopes, promise>>


\* the envelopes that differ from e in exactly one field
TamperedVersions(e) ==
  ( {[e EXCEPT !.message = x] :
        x \in {SubSeq(e.message, 1, Len(e.message) - 1), e.message \o <<0>>}}
    \cup {[e EXCEPT !.nonce = n] : n \in Nonces}
    \cup {[e EXCEPT !.createdAt = t] : t \in Times}
    \cup {[e EXCEPT !.hash = hashStr(e.message \o e.nonce \o NumToStr(e.createdAt))]}
    \cup {[e EXCEPT !.signature = signStr(i, e.hash)] : i \in Ids}
    \cup {[e EXCEPT !.senderAddress = a] : a \in Addresses}
    \cup {[e EXCEPT !.senderBoxPublicKey = k] : k \in BoxPublicKeys}
    \cup {[e EXCEPT !.receiverAddress = a] : a \in Addresses}
    \cup {[e EXCEPT !.messageId = "id-2"], [e EXCEPT !.receivedAt = <<9>>]} )
  \ {e}

\* the envelope is modified on its way to the receiver
Tamper ==
  /\ wire # <<>>
  /\ result = <<>>
  /\ tampers < MaxTamper
  /\ \E e \in TamperedVersions(wire[1]) : wire' = <<e>>
  /\ tampers' = tampers + 1
  /\ UNCHANGED <<phase, args, msg, ctor, encCount, sent, result, ownerCheck, codec, claimCalls, envelopes, promise>>

\* an envelope made with the Crypto primitives directly, around any text,
\* correctly hashed and signed by its maker
Forge ==
  /\ phase = "new"
  /\ \E t \in ForgedTexts, maker \in {"alice", "mallory"} :
       LET em == encryptAsymmetricAsStr(maker, t, BoxPublicKeyOf["bob"], <<7>>)
           h == hashStr(em.box \o em.nonce \o NumToStr(2))
       IN wire' = << [messageId |-> "undefined", receivedAt |-> <<>>,
                      message |-> em.box, nonce |-> em.nonce, createdAt |-> 2,
                      hash |-> h, signature |-> signStr(maker, h),
                      receiverAddress |-> AddressOf["bob"],
                      senderAddress |-> AddressOf[maker],
                      senderBoxPublicKey |-> BoxPublicKeyOf[maker]] >>
  /\ phase' = "forged"
  /\ UNCHANGED <<args, msg, ctor, encCount, sent, tampers, result, ownerCheck, codec, claimCalls, envelopes, promise>>

\* Message.decrypt(wire, receiver)
Decrypt ==
  /\ wire # <<>>
  /\ result = <<>>
  /\ \E receiver \in Ids :
       result' = <<[receiver |-> receiver, out |-> decrypt(wire[1], receiver)]>>
  /\ phase' = "done"
  /\ UNCHANGED <<args, msg, ctor, encCount, sent, wire, tampers, ownerCheck, codec, claimCalls, envelopes, promise>>

\* Message.ensureOwnerIsSender({body, senderAddress}) called by itself
CheckOwner ==
  /\ phase = "new"
  /\ \E body \in OwnerCheckBodies, senderAddress \in Addresses :
       ownerCheck' = <<[body |-> body, senderAddress |-> senderAddress,
                        outcome |-> ensureOwnerIsSender(body, senderAddress)]>>
  /\ phase' = "done"
  /\ UNCHANGED <<args, msg, ctor, encCount, sent, wire, tampers, result, codec, claimCalls, envelopes, promise>>

Next ==
  \/ CheckOwner
  \/ Construct
  \/ AttachMetadata
  \/ Encrypt
  \/ Tamper
  \/ Forge
  \/ Decrypt

Spec == Init /\ [][Next]_vars

TypeOK ==
  /\ phase \in {"new", "constructed", "forged", "failed", "done"}
  /\ encCount \in 0..MaxEncrypt
  /\ tampers \in 0..MaxTamper
  /\ Len(msg) <= 1 /\ Len(wire) <= 1 /\ Len(result) <= 1


\* ------------------------------------------------------------ properties
Range(seq) == {seq[i] : i \in 1..Len(seq)}

\* the carried hash is the digest of message + nonce + createdAt
HashConsistent(e) ==
  hashStr(e.message \o e.nonce \o NumToStr(e.createdAt)) = e.hash

\* the signature was made over the carried hash by the key of senderAddress
SignedBySender(e) ==
  /\ e.signature.over = e.hash
  /\ AddressOf[e.signature.signer] = e.senderAddress

\* what the receiver's key, the declared sender key and the nonce open
Opened(e, receiver) ==
  decryptAsymmetricAsStr(receiver, [box |-> e.message, nonce |-> e.nonce],
                         e.senderBoxPublicKey)

AllFiveCalls ==
  <<"hashStr", "validateSignature", "decryptAsymmetricAsStr", "JSON.parse",
    "ensureOwnerIsSender">>

\* C1: Message.decrypt checks in the order hash, signature, decrypt, parse,
\* owner: decryptAsymmetricAsStr is called only after the recomputed hash
\* equalled the carried one and the signature verified against
\* senderAddress, and ensureOwnerIsSender only after decryption and JSON
\* parsing succeeded.
C1_VerificationOrder ==
  result # <<>> =>
    LET calls == result[1].out.calls
        e == wire[1]
    IN /\ "decryptAsymmetricAsStr" \in Range(calls) =>
            /\ SubSeq(calls, 1, 3) = SubSeq(AllFiveCalls, 1, 3)
            /\ HashConsistent(e)
            /\ SignedBySender(e)
       /\ "ensureOwnerIsSender" \in Range(calls) =>
            /\ calls = AllFiveCalls
            /\ ~Falsy(Opened(e, result[1].receiver))
            /\ JSON_parse(Opened(e, result[1].receiver).text).ok

C1_Witness ==
  /\ result # <<>>
  /\ result[1].out.calls = AllFiveCalls
  /\ result[1].out.status = "error"
  /\ tampers = 0

\* C2: when exactly one of message, nonce, createdAt of an envelope made by
\* Message.encrypt is changed and hash and signature are left as carried,
\* Message.decrypt fails with ERROR_NONCE_HASH_INVALID before the signature
\* is verified and before any decryption.
C2_TamperDetection ==
  (/\ result # <<>>
   /\ sent # <<>>
   /\ wire[1].hash = sent[1].hash
   /\ wire[1].signature = sent[1].signature
   /\ Cardinality({f \in {"message", "nonce", "createdAt"} :
                     wire[1][f] # sent[1][f]}) = 1)
  => /\ result[1].out.status = "error"
     /\ result[1].out.error = "ERROR_NONCE_HASH_INVALID"
     /\ result[1].out.calls = <<"hashStr">>
     /\ result[1].out.returned = <<>>

C2_Witness ==
  /\ result # <<>>
  /\ sent # <<>>
  /\ wire[1].createdAt # sent[1].createdAt
  /\ wire[1].message = sent[1].message
  /\ wire[1].nonce = sent[1].nonce
  /\ result[1].out.error = "ERROR_NONCE_HASH_INVALID"

\* C3: when the carried hash is consistent with message + nonce + createdAt
\* but the signature was not made over it by the key of the claimed
\* senderAddress, Message.decrypt fails at the signature verification and
\* never reaches decryption.
C3_SignatureBinding ==
  (/\ result # <<>>
   /\ HashConsistent(wire[1])
   /\ ~SignedBySender(wire[1]))
  => /\ result[1].out.status = "error"
     /\ result[1].out.error = "ERROR_SIGNATURE_UNVERIFIABLE"
     /\ result[1].out.calls = <<"hashStr", "validateSignature">>
     /\ result[1].out.returned = <<>>

C3_Witness ==
  /\ result # <<>>
  /\ sent # <<>>
  /\ wire[1].senderAddress # sent[1].senderAddress
  /\ wire[1].signature = sent[1].signature
  /\ result[1].receiver = args[1].receiver
  /\ result[1].out.error = "ERROR_SIGNATURE_UNVERIFIABLE"


\* the body is an object whose content has the properties the owner check reads
GivenOwners(b) == b.syntax = "object" /\ b.shape = "ok"

\* the body is of a kind that declares owners and one of them is not a
\* (the sender's address)
OwnerMismatch(b, a) ==
  /\ GivenOwners(b)
  /\ \/ b.type = REQUEST_ATTESTATION_FOR_CLAIM /\ b.owners[1] # a
     \/ b.type = SUBMIT_ATTESTATION_FOR_CLAIM /\ b.owners[1] # a
     \/ /\ b.type = SUBMIT_CLAIMS_FOR_CTYPES_CLASSIC
        /\ \E i \in 1..Len(b.owners) : b.owners[i] # a

\* the envelope passed the hash and signature checks and opened, for the
\* receiver that decrypted, to a text that parses
OpenedAndParsed ==
  /\ result # <<>>
  /\ HashConsistent(wire[1])
  /\ SignedBySender(wire[1])
  /\ ~Falsy(Opened(wire[1], result[1].receiver))
  /\ JSON_parse(Opened(wire[1], result[1].receiver).text).ok

ParsedBody == JSON_parse(Opened(wire[1], result[1].receiver).text).value

\* C4: with valid hash, signature and ciphertext, a
\* SUBMIT_ATTESTATION_FOR_CLAIM payload whose attestation.owner differs from
\* senderAddress makes Message.decrypt fail with ERROR_IDENTITY_MISMATCH
\* (not the parse error); with owner equal to senderAddress decrypt succeeds.
C4_OwnerBinding ==
  (/\ OpenedAndParsed
   /\ GivenOwners(ParsedBody)
   /\ ParsedBody.type = SUBMIT_ATTESTATION_FOR_CLAIM)
  => IF ParsedBody.owners[1] # wire[1].senderAddress
       THEN /\ result[1].out.status = "error"
            /\ result[1].out.error = "ERROR_IDENTITY_MISMATCH"
       ELSE result[1].out.status = "ok"

\* C5: Message.ensureOwnerIsSender raises the identity-mismatch error
\* exactly when the body is REQUEST_ATTESTATION_FOR_CLAIM with a claim owner
\* other than senderAddress, SUBMIT_ATTESTATION_FOR_CLAIM with an
\* attestation owner other than senderAddress, or
\* SUBMIT_CLAIMS_FOR_CTYPES_CLASSIC with at least one claim whose owner is
\* not senderAddress; otherwise it returns (an empty list passes).
C5_OwnerCheckExact ==
  ownerCheck # <<>> =>
    LET c == ownerCheck[1] IN
      /\ c.outcome \in {"ok", "ERROR_IDENTITY_MISMATCH"}
      /\ c.outcome = "ERROR_IDENTITY_MISMATCH"
           <=> OwnerMismatch(c.body, c.senderAddress)

C5_Witness ==
  /\ ownerCheck # <<>>
  /\ ownerCheck[1].body.type = SUBMIT_CLAIMS_FOR_CTYPES_CLASSIC
  /\ Len(ownerCheck[1].body.owners) = 2
  /\ ownerCheck[1].body.owners[1] = ownerCheck[1].senderAddress
  /\ ownerCheck[1].body.owners[2] # ownerCheck[1].senderAddress
  /\ ownerCheck[1].outcome = "ERROR_IDENTITY_MISMATCH"

\* C6: Message.decrypt returns a value only if the hash, the signature, the
\* decryption, the parse and the owner binding all passed; otherwise it
\* throws and nothing carrying the body is returned.
C6_NoPartialResult ==
  result # <<>> =>
    /\ result[1].out.status \in {"ok", "error"}
    /\ result[1].out.status = "error" <=> result[1].out.returned = <<>>
    /\ result[1].out.status = "ok" =>
         /\ OpenedAndParsed
         /\ ~OwnerMismatch(ParsedBody, wire[1].senderAddress)
         /\ result[1].out.calls = AllFiveCalls
         /\ result[1].out.error = "none"

C6_Witness ==
  /\ result # <<>>
  /\ result[1].out.status = "ok"
  /\ Len(result[1].out.returned) = 1
  /\ result[1].out.returned[1].body.type = SUBMIT_CLAIMS_FOR_CTYPES_CLASSIC
  /\ Len(result[1].out.returned[1].body.owners) = 2


\* the envelope that reaches the receiver is the one the sender emitted, and
\* the receiver that decrypts is the one the Message was constructed for
DeliveredAsSent ==
  /\ result # <<>>
  /\ args # <<>>
  /\ sent # <<>>
  /\ wire = sent
  /\ result[1].receiver = args[1].receiver

C8_CompressedConstruction ==
  (/\ DeliveredAsSent
   /\ args[1].body.syntax = "array"
   /\ ~OwnerMismatch(msg[1].body, msg[1].senderAddress))
  => /\ result[1].out.status = "ok"
     /\ Len(result[1].out.returned) = 1
     /\ result[1].out.returned[1].body.syntax = "object"
     /\ result[1].out.returned[1].body = msg[1].body

ValidStructuredPayload(v) == v.syntax = "object" /\ v.type \in BodyTypes

\* C9: if the decrypted plaintext is not a valid structured payload (not
\* JSON, or JSON that is not a {type, content} record of one of the 16
\* kinds), Message.decrypt fails with the payload-parse error and returns
\* nothing.
C9_InvalidPayloadRejected ==
  (/\ result # <<>>
   /\ HashConsistent(wire[1])
   /\ SignedBySender(wire[1])
   /\ Opened(wire[1], result[1].receiver).ok
   /\ ~ValidStructuredPayload(Opened(wire[1], result[1].receiver).text.text))
  => /\ result[1].out.status = "error"
     /\ result[1].out.error = "ERROR_PARSING_MESSAGE"
     /\ result[1].out.returned = <<>>

WireFields ==
  {"messageId", "receivedAt", "message", "nonce", "createdAt", "hash",
   "signature", "receiverAddress", "senderAddress", "senderBoxPublicKey"}

\* C10: Message.encrypt is a pure projection: every call returns the
\* message, nonce, hash and signature computed in the constructor, leaves
\* the Message unchanged, and returns exactly the wire fields, never the
\* body.
C10_EncryptProjection ==
  [][encCount' # encCount =>
       /\ msg' = msg
       /\ Len(wire') = 1
       /\ DOMAIN wire'[1] = WireFields
       /\ \A f \in {"message", "nonce", "hash", "signature", "createdAt"} :
            wire'[1][f] = ctor[1][f]
       /\ \A f \in WireFields : wire'[1][f] = msg[1][f]
       /\ sent' = wire']_vars

C10_Witness ==
  /\ encCount >= 2
  /\ tampers = 0
  /\ result = <<>>
  /\ msg[1].messageId = "id-1"
  /\ wire[1].messageId = "id-1"
  /\ wire[1].message = ctor[1].message
  /\ wire[1].hash = ctor[1].hash


MessageIds == {"undefined", "id-1", "id-2"}

ReceivedAts == {<<>>, <<5>>, <<9>>}

\* the envelope in transit differs from the emitted one at most in the
\* transport metadata
OnlyMetadataChanged ==
  /\ wire # <<>>
  /\ sent # <<>>
  /\ \A f \in WireFields \ {"messageId", "receivedAt"} : wire[1][f] = sent[1][f]

\* C11: messageId and receivedAt are not integrity-protected: envelopes
\* that differ only in them have the same Message.decrypt outcome for the
\* same receiver, and attaching or changing them after construction leaves
\* hash and signature valid.
C11_TransportMetadataUnbound ==
  /\ OnlyMetadataChanged =>
       /\ HashConsistent(wire[1])
       /\ SignedBySender(wire[1])
  /\ result # <<>> =>
       \A id \in MessageIds, at \in ReceivedAts :
         LET other == decrypt([wire[1] EXCEPT !.messageId = id, !.receivedAt = at],
                              result[1].receiver)
         IN /\ other.status = result[1].out.status
            /\ other.error = result[1].out.error
            /\ other.calls = result[1].out.calls
            /\ Len(other.returned) = Len(result[1].out.returned)
            /\ other.status = "ok" =>
                 other.returned[1].body = result[1].out.returned[1].body

C11_Witness ==
  /\ result # <<>>
  /\ OnlyMetadataChanged
  /\ msg[1].messageId = "id-1"
  /\ sent[1].messageId = "id-1"
  /\ wire[1].messageId = "id-2"
  /\ result[1].out.status = "ok"


\* ======================================================= compression codecs
\* number of codec calls chained on one value
MaxCalls == 3

\* JavaScript values handed to the codecs: a scalar is [js |-> token], an
\* array is [array |-> <<elements>>], an object is a record of its properties
\* (a property that is not set reads as undefined)
Js(token) == [js |-> token]

JsArray(elements) == [array |-> elements]

undefined == Js("undefined")

null == Js("null")

true == Js("true")

false == Js("false")

\* number tokens; every other token that is not undefined, null, true or
\* false is a string, "" being the empty string
NumberTokens == {"0", "3.3", "23.4", "23.5"}

Array_isArray(v) == DOMAIN v = {"array"}

typeof(v) ==
  IF DOMAIN v = {"js"}
    THEN CASE v.js = "undefined" -> "undefined"
           [] v.js \in {"true", "false"} -> "boolean"
           [] v.js \in NumberTokens -> "number"
           [] v.js = "null" -> "object"
           [] OTHER -> "string"
    ELSE "object"

\* ToBoolean
Truthy(v) == v \notin {undefined, null, false, Js(""), Js("0")}

\* the ! operator
Not(v) == IF Truthy(v) THEN false ELSE true

\* outcome of a codec call: the error thrown (with the record type it
\* names) or the value returned
Throw(error, about) == [error |-> error, about |-> about, value |-> <<>>]

Return(v) == [error |-> "", about |-> "", value |-> <<v>>]

Returned(out) == out.error = ""

\* well-formed hash strings and addresses
HashStrings == {"0xclaim", "0xctype", "0xctype2", "0xdeleg", "0xroot"}

\* DataUtils.validateHash(hash, name)
validateHash(hash, name) ==
  IF typeof(hash) # "string" THEN Throw("ERROR_HASH_TYPE", name)
  ELSE IF hash.js \notin HashStrings THEN Throw("ERROR_HASH_MALFORMED", name)
  ELSE Return(undefined)

\* DataUtils.validateAddress(address, name)
validateAddress(address, name) ==
  IF typeof(address) # "string" THEN Throw("ERROR_ADDRESS_TYPE", name)
  ELSE IF address.js \notin Addresses THEN Throw("ERROR_ADDRESS_INVALID", name)
  ELSE Return(undefined)

\* ------------------------------------------------------- AttestationUtils
\* an errorCheck that reads revoked = false as a missing revocation bit
errorCheck_RevokedFalsy(input) ==
  IF ~Truthy(input.cTypeHash) THEN Throw("ERROR_CTYPE_HASH_NOT_PROVIDED", "")
  ELSE IF ~Returned(validateHash(input.cTypeHash, "CType"))
    THEN validateHash(input.cTypeHash, "CType")
  ELSE IF ~Truthy(input.claimHash) THEN Throw("ERROR_CLAIM_HASH_NOT_PROVIDED", "")
  ELSE IF ~Returned(validateHash(input.claimHash, "Claim"))
    THEN validateHash(input.claimHash, "Claim")
  ELSE IF typeof(input.delegationId) # "string" /\ Not(input.delegationId) = null
    THEN Throw("ERROR_DELEGATION_ID_TYPE", "")
  ELSE IF ~Truthy(input.owner) THEN Throw("ERROR_OWNER_NOT_PROVIDED", "")
  ELSE IF ~Returned(validateAddress(input.owner, "owner"))
    THEN validateAddress(input.owner, "owner")
  ELSE IF ~Truthy(input.revoked)
    THEN Throw("ERROR_REVOCATION_BIT_MISSING", "")
  ELSE Return(undefined)

errorCheck(input) ==
  IF ~Truthy(input.cTypeHash) THEN Throw("ERROR_CTYPE_HASH_NOT_PROVIDED", "")
  ELSE IF ~Returned(validateHash(input.cTypeHash, "CType"))
    THEN validateHash(input.cTypeHash, "CType")
  ELSE IF ~Truthy(input.claimHash) THEN Throw("ERROR_CLAIM_HASH_NOT_PROVIDED", "")
  ELSE IF ~Returned(validateHash(input.claimHash, "Claim"))
    THEN validateHash(input.claimHash, "Claim")
  ELSE IF typeof(input.delegationId) # "string" /\ Not(input.delegationId) = null
    THEN Throw("ERROR_DELEGATION_ID_TYPE", "")
  ELSE IF ~Truthy(input.owner) THEN Throw("ERROR_OWNER_NOT_PROVIDED", "")
  ELSE IF ~Returned(validateAddress(input.owner, "owner"))
    THEN validateAddress(input.owner, "owner")
  ELSE IF typeof(input.revoked) # "boolean"
    THEN Throw("ERROR_REVOCATION_BIT_MISSING", "")
  ELSE Return(undefined)

\* a compress that leaves out a delegationId that is not set
Attestation_compress_OmitsAbsentDelegation(attestation) ==
  IF ~Returned(errorCheck(attestation)) THEN errorCheck(attestation)
  ELSE IF Truthy(attestation.delegationId)
    THEN Return(JsArray(<<attestation.claimHash, attestation.cTypeHash,
                          attestation.owner, attestation.revoked,
                          attestation.delegationId>>))
  ELSE Return(JsArray(<<attestation.claimHash, attestation.cTypeHash,
                        attestation.owner, attestation.revoked>>))

\* a compress that puts cTypeHash before claimHash
Attestation_compress_CTypeHashFirst(attestation) ==
  IF ~Returned(errorCheck(attestation)) THEN errorCheck(attestation)
  ELSE Return(JsArray(<<attestation.cTypeHash, attestation.claimHash,
                        attestation.owner, attestation.revoked,
                        attestation.delegationId>>))

Attestation_compress(attestation) ==
  IF ~Returned(errorCheck(attestation)) THEN errorCheck(attestation)
  ELSE Return(JsArray(<<attestation.claimHash, attestation.cTypeHash,
                        attestation.owner, attestation.revoked,
                        attestation.delegationId>>))

\* a decompress that only rejects arrays that are too short
Attestation_decompress_AtLeastFive(attestation) ==
  IF ~Array_isArray(attestation) \/ Len(attestation.array) < 5
    THEN Throw("ERROR_DECOMPRESSION_ARRAY", "Attestation")
  ELSE Return([claimHash |-> attestation.array[1],
               cTypeHash |-> attestation.array[2],
               owner |-> attestation.array[3],
               revoked |-> attestation.array[4],
               delegationId |-> attestation.array[5]])

Attestation_decompress(attestation) ==
  IF ~Array_isArray(attestation) \/ Len(attestation.array) # 5
    THEN Throw("ERROR_DECOMPRESSION_ARRAY", "Attestation")
  ELSE Return([claimHash |-> attestation.array[1],
               cTypeHash |-> attestation.array[2],
               owner |-> attestation.array[3],
               revoked |-> attestation.array[4],
               delegationId |-> attestation.array[5]])

\* attestations handed to compress, valid and invalid
AttestationInputs ==
  [claimHash : {undefined, Js(""), Js("0xclaim"), Js("nothex")},
   cTypeHash : {undefined, Js("0xctype"), Js("nothex")},
   owner : {undefined, Js(""), Js("5alice")},
   revoked : {undefined, true, false, Js("0")},
   delegationId : {undefined, null, Js("0xdeleg"), Js("23.4"),
                   [id |-> Js("0xdeleg")]}]

\* values handed to decompress: arrays of 4, 5 and 6 elements and values
\* that are not arrays
AttestationTuples ==
  LET five == {<<a.claimHash, a.cTypeHash, a.owner, a.revoked, a.delegationId>> :
                 a \in {x \in AttestationInputs :
                          /\ x.claimHash \in {undefined, Js("0xclaim")}
                          /\ x.cTypeHash \in {undefined, Js("0xctype")}}}
  IN {JsArray(t) : t \in five}
       \cup {JsArray(SubSeq(t, 1, 4)) : t \in five}
       \cup {JsArray(Append(t, undefined)) : t \in five}
       \cup {undefined, null, Js("0xclaim"), [claimHash |-> Js("0xclaim")]}

\* ------------------------------------------------------------- QuoteUtils
\* value.name: undefined when the value has no such property
Prop(value, name) == IF name \in DOMAIN value THEN value[name] ELSE undefined

compressCost(cost) ==
  IF ~Truthy(Prop(cost, "gross")) \/ ~Truthy(Prop(cost, "net"))
       \/ ~Truthy(Prop(cost, "tax"))
    THEN Throw("ERROR_COMPRESS_OBJECT", "Cost Breakdown")
  ELSE Return(JsArray(<<cost.gross, cost.net, cost.tax>>))

decompressCost(cost) ==
  IF ~Array_isArray(cost) \/ Len(cost.array) # 3
    THEN Throw("ERROR_DECOMPRESSION_ARRAY", "Cost Breakdown")
  ELSE Return([gross |-> cost.array[1], net |-> cost.array[2],
               tax |-> cost.array[3]])

compressQuote(quote) ==
  IF \/ ~Truthy(quote.attesterAddress)
     \/ ~Truthy(quote.cTypeHash)
     \/ ~Truthy(quote.cost)
     \/ ~Truthy(quote.currency)
     \/ ~Truthy(quote.termsAndConditions)
     \/ ~Truthy(quote.timeframe)
    THEN Throw("ERROR_COMPRESS_OBJECT", "Quote")
  ELSE IF ~Returned(compressCost(quote.cost)) THEN compressCost(quote.cost)
  ELSE Return(JsArray(<<quote.attesterAddress, quote.cTypeHash,
                        compressCost(quote.cost).value[1], quote.currency,
                        quote.termsAndConditions, quote.timeframe>>))

decompressQuote(quote) ==
  IF ~Array_isArray(quote) \/ Len(quote.array) # 6
    THEN Throw("ERROR_DECOMPRESSION_ARRAY", "")
  ELSE IF ~Returned(decompressCost(quote.array[3]))
    THEN decompressCost(quote.array[3])
  ELSE Return([attesterAddress |-> quote.array[1],
               cTypeHash |-> quote.array[2],
               cost |-> decompressCost(quote.array[3]).value[1],
               currency |-> quote.array[4],
               termsAndConditions |-> quote.array[5],
               timeframe |-> quote.array[6]])

compressAttesterSignedQuote(attesterSignedQuote) ==
  IF \/ ~Truthy(attesterSignedQuote.attesterAddress)
     \/ ~Truthy(attesterSignedQuote.cTypeHash)
     \/ ~Truthy(attesterSignedQuote.cost)
     \/ ~Truthy(attesterSignedQuote.currency)
     \/ ~Truthy(attesterSignedQuote.termsAndConditions)
     \/ ~Truthy(attesterSignedQuote.timeframe)
     \/ ~Truthy(attesterSignedQuote.attesterSignature)
    THEN Throw("ERROR_COMPRESS_OBJECT", "Attester Signed Quote")
  ELSE IF ~Returned(compressCost(attesterSignedQuote.cost))
    THEN compressCost(attesterSignedQuote.cost)
  ELSE Return(JsArray(<<attesterSignedQuote.attesterAddress,
                        attesterSignedQuote.cTypeHash,
                        compressCost(attesterSignedQuote.cost).value[1],
                        attesterSignedQuote.currency,
                        attesterSignedQuote.termsAndConditions,
                        attesterSignedQuote.timeframe,
                        attesterSignedQuote.attesterSignature>>))

decompressAttesterSignedQuote(attesterSignedQuote) ==
  IF ~Array_isArray(attesterSignedQuote) \/ Len(attesterSignedQuote.array) # 7
    THEN Throw("ERROR_DECOMPRESSION_ARRAY", "")
  ELSE IF ~Returned(decompressCost(attesterSignedQuote.array[3]))
    THEN decompressCost(attesterSignedQuote.array[3])
  ELSE Return([attesterAddress |-> attesterSignedQuote.array[1],
               cTypeHash |-> attesterSignedQuote.array[2],
               cost |-> decompressCost(attesterSignedQuote.array[3]).value[1],
               currency |-> attesterSignedQuote.array[4],
               termsAndConditions |-> attesterSignedQuote.array[5],
               timeframe |-> attesterSignedQuote.array[6],
               attesterSignature |-> attesterSignedQuote.array[7]])

compressQuoteAgreement(quoteAgreement) ==
  IF \/ ~Truthy(quoteAgreement.attesterAddress)
     \/ ~Truthy(quoteAgreement.cTypeHash)
     \/ ~Truthy(quoteAgreement.cost)
     \/ ~Truthy(quoteAgreement.currency)
     \/ ~Truthy(quoteAgreement.termsAndConditions)
     \/ ~Truthy(quoteAgreement.timeframe)
     \/ ~Truthy(quoteAgreement.attesterSignature)
    THEN Throw("ERROR_COMPRESS_OBJECT", "Quote Agreement")
  ELSE IF ~Returned(compressCost(quoteAgreement.cost))
    THEN compressCost(quoteAgreement.cost)
  ELSE Return(JsArray(<<quoteAgreement.attesterAddress,
                        quoteAgreement.cTypeHash,
                        compressCost(quoteAgreement.cost).value[1],
                        quoteAgreement.currency,
                        quoteAgreement.termsAndConditions,
                        quoteAgreement.timeframe,
                        quoteAgreement.attesterSignature,
                        quoteAgreement.claimerSignature,
                        quoteAgreement.rootHash>>))

\* a decompressQuoteAgreement that only rejects arrays that are too short
decompressQuoteAgreement_AtLeastNine(quoteAgreement) ==
  IF ~Array_isArray(quoteAgreement) \/ Len(quoteAgreement.array) < 9
    THEN Throw("ERROR_DECOMPRESSION_ARRAY", "")
  ELSE IF ~Returned(decompressCost(quoteAgreement.array[3]))
    THEN decompressCost(quoteAgreement.array[3])
  ELSE Return([attesterAddress |-> quoteAgreement.array[1],
               cTypeHash |-> quoteAgreement.array[2],
               cost |-> decompressCost(quoteAgreement.array[3]).value[1],
               currency |-> quoteAgreement.array[4],
               termsAndConditions |-> quoteAgreement.array[5],
               timeframe |-> quoteAgreement.array[6],
               attesterSignature |-> quoteAgreement.array[7],
               claimerSignature |-> quoteAgreement.array[8],
               rootHash |-> quoteAgreement.array[9]])

decompressQuoteAgreement(quoteAgreement) ==
  IF ~Array_isArray(quoteAgreement) \/ Len(quoteAgreement.array) # 9
    THEN Throw("ERROR_DECOMPRESSION_ARRAY", "")
  ELSE IF ~Returned(decompressCost(quoteAgreement.array[3]))
    THEN decompressCost(quoteAgreement.array[3])
  ELSE Return([attesterAddress |-> quoteAgreement.array[1],
               cTypeHash |-> quoteAgreement.array[2],
               cost |-> decompressCost(quoteAgreement.array[3]).value[1],
               currency |-> quoteAgreement.array[4],
               termsAndConditions |-> quoteAgreement.array[5],
               timeframe |-> quoteAgreement.array[6],
               attesterSignature |-> quoteAgreement.array[7],
               claimerSignature |-> quoteAgreement.array[8],
               rootHash |-> quoteAgreement.array[9]])

\* cost breakdowns handed to the codecs: objects (tax is an object such as
\* {vat: 3.3}) and values that are not cost objects
CostInputs ==
  [gross : {undefined, Js("0"), Js("23.5")},
   net : {Js("0"), Js("23.4")},
   tax : {undefined, [vat |-> Js("3.3")]}]
    \cup {undefined, Js("free")}

QuoteInputs ==
  [attesterAddress : {undefined, Js("5alice")},
   cTypeHash : {Js("0xctype")},
   cost : CostInputs,
   currency : {Js(""), Js("Euro")},
   termsAndConditions : {Js("Lots of these")},
   timeframe : {undefined, Js("2019-08-24")}]

AttesterSignedQuoteInputs ==
  {[attesterAddress |-> q.attesterAddress, cTypeHash |-> q.cTypeHash,
    cost |-> q.cost, currency |-> q.currency,
    termsAndConditions |-> q.termsAndConditions, timeframe |-> q.timeframe,
    attesterSignature |-> sig] :
     q \in QuoteInputs, sig \in {undefined, Js("0xattestersig")}}

QuoteAgreementInputs ==
  {[attesterAddress |-> q.attesterAddress, cTypeHash |-> q.cTypeHash,
    cost |-> q.cost, currency |-> q.currency,
    termsAndConditions |-> q.termsAndConditions, timeframe |-> q.timeframe,
    attesterSignature |-> q.attesterSignature,
    claimerSignature |-> sig, rootHash |-> root] :
     q \in AttesterSignedQuoteInputs, sig \in {undefined, Js("0xclaimersig")},
     root \in {undefined, Js("0xroot")}}

\* compressed cost breakdowns: arrays of 2, 3 and 4 elements and values that
\* are not arrays
CostTuples ==
  LET three == {<<c.gross, c.net, c.tax>> : c \in CostInputs \ {undefined, Js("free")}}
  IN {JsArray(t) : t \in three}
       \cup {JsArray(SubSeq(t, 1, 2)) : t \in three}
       \cup {JsArray(Append(t, undefined)) : t \in three}
       \cup {undefined, Js("free"), [gross |-> Js("23.5")]}

\* compressed quotes of every length from 5 to 10 and values that are not
\* arrays; the element at index 2 is any compressed cost
QuoteTuples ==
  LET full == {<<q.attesterAddress, q.cTypeHash, c, q.currency,
                 q.termsAndConditions, q.timeframe, q.attesterSignature,
                 q.claimerSignature, q.rootHash, undefined>> :
                 q \in {x \in QuoteAgreementInputs :
                          /\ x.attesterAddress # undefined
                          /\ x.currency # Js("")
                          /\ x.cost = undefined},
                 c \in CostTuples}
  IN {JsArray(SubSeq(t, 1, n)) : t \in full, n \in 5..10}
       \cup {undefined, Js("0xctype"), [cTypeHash |-> Js("0xctype")]}

\* ----------------------------------------------------------- MessageUtils
REQUEST_TERMS == "request-terms"
REQUEST_CLAIMS_FOR_CTYPES == "request-claims-for-ctypes"
INFORM_CREATE_DELEGATION == "inform-create-delegation"

\* the kinds whose contents are modelled in full
CodecKinds ==
  {REQUEST_TERMS, REQUEST_ATTESTATION_FOR_CLAIM, SUBMIT_ATTESTATION_FOR_CLAIM,
   REQUEST_CLAIMS_FOR_CTYPES, SUBMIT_CLAIMS_FOR_CTYPES_CLASSIC,
   INFORM_CREATE_DELEGATION}

\* a map that returns the results in reverse order
MapAll_Reversed(outs) ==
  LET failed == {i \in 1..Len(outs) : ~Returned(outs[i])}
  IN IF failed # {}
       THEN outs[CHOOSE i \in failed : \A j \in failed : i <= j]
       ELSE Return(JsArray([i \in 1..Len(outs) |-> outs[Len(outs) + 1 - i].value[1]]))

\* list.map(codec), outs being the outcomes of the codec on the elements in
\* the order of the list: the array of the results in that order, or the
\* first error thrown on the way
MapAll(outs) ==
  LET failed == {i \in 1..Len(outs) : ~Returned(outs[i])}
  IN IF failed # {}
       THEN outs[CHOOSE i \in failed : \A j \in failed : i <= j]
       ELSE Return(JsArray([i \in 1..Len(outs) |-> outs[i].value[1]]))

\* ClaimUtils.compress / decompress on a (possibly partial) claim
Claim_compress(claim) ==
  IF ~Truthy(claim.cTypeHash) THEN Throw("ERROR_CTYPE_HASH_NOT_PROVIDED", "")
  ELSE Return(JsArray(<<claim.cTypeHash, claim.owner, claim.contents>>))

Claim_decompress(claim) ==
  IF ~Array_isArray(claim) \/ Len(claim.array) # 3
    THEN Throw("ERROR_DECOMPRESSION_ARRAY", "Claim")
  ELSE Return([cTypeHash |-> claim.array[1], owner |-> claim.array[2],
               contents |-> claim.array[3]])

\* RequestForAttestationUtils.compress / decompress, reduced to the claim
\* and the root hash of the request
RequestForAttestation_compress(request) ==
  LET c == Claim_compress(request.claim)
  IN IF ~Returned(c) THEN c
     ELSE Return(JsArray(<<c.value[1], request.rootHash>>))

RequestForAttestation_decompress(request) ==
  IF ~Array_isArray(request) \/ Len(request.array) # 2
    THEN Throw("ERROR_DECOMPRESSION_ARRAY", "Request for Attestation")
  ELSE LET c == Claim_decompress(request.array[1])
       IN IF ~Returned(c) THEN c
          ELSE Return([claim |-> c.value[1], rootHash |-> request.array[2]])

\* AttestedClaimUtils.compress / decompress
AttestedClaim_compress(attestedClaim) ==
  LET r == RequestForAttestation_compress(attestedClaim.request)
      a == Attestation_compress(attestedClaim.attestation)
  IN IF ~Returned(r) THEN r
     ELSE IF ~Returned(a) THEN a
     ELSE Return(JsArray(<<r.value[1], a.value[1]>>))

AttestedClaim_decompress(attestedClaim) ==
  IF ~Array_isArray(attestedClaim) \/ Len(attestedClaim.array) # 2
    THEN Throw("ERROR_DECOMPRESSION_ARRAY", "Attested Claim")
  ELSE LET r == RequestForAttestation_decompress(attestedClaim.array[1])
           a == Attestation_decompress(attestedClaim.array[2])
       IN IF ~Returned(r) THEN r
          ELSE IF ~Returned(a) THEN a
          ELSE Return([request |-> r.value[1], attestation |-> a.value[1]])

\* the compressed content of a body of one of the modelled kinds
compressContent(type, content) ==
  CASE type = REQUEST_TERMS -> Claim_compress(content)
    [] type = REQUEST_ATTESTATION_FOR_CLAIM ->
         LET r == RequestForAttestation_compress(content.requestForAttestation)
             q == IF Truthy(content.quote)
                    THEN compressQuoteAgreement(content.quote)
                    ELSE Return(undefined)
         IN IF ~Returned(r) THEN r
            ELSE IF ~Returned(q) THEN q
            ELSE Return(JsArray(<<r.value[1], q.value[1],
                                  content.prerequisiteClaims>>))
    [] type = SUBMIT_ATTESTATION_FOR_CLAIM ->
         Attestation_compress(content.attestation)
    [] type = REQUEST_CLAIMS_FOR_CTYPES ->
         MapAll([i \in 1..Len(content.array) |->
                   Return(JsArray(<<content.array[i].cTypeHash,
                                    content.array[i].acceptedAttester,
                                    content.array[i].requiredProperties>>))])
    [] type = SUBMIT_CLAIMS_FOR_CTYPES_CLASSIC ->
         MapAll([i \in 1..Len(content.array) |->
                   AttestedClaim_compress(content.array[i])])
    [] type = INFORM_CREATE_DELEGATION ->
         Return(JsArray(<<content.delegationId, content.isPCR>>))

\* a compressMessage switch without its default branch: a body of an unknown
\* kind is returned as it is
MessageUtils_compressMessage_NoDefault(body) ==
  IF body.type \notin BodyTypes THEN Return(body)
  ELSE LET c == compressContent(body.type, body.content)
       IN IF ~Returned(c) THEN c
          ELSE Return(JsArray(<<Js(body.type), c.value[1]>>))

\* MessageUtils.compressMessage(body): [body.type, compressed content]
MessageUtils_compressMessage(body) ==
  IF body.type \notin BodyTypes THEN Throw("ERROR_MESSAGE_BODY_MALFORMED", "")
  ELSE LET c == compressContent(body.type, body.content)
       IN IF ~Returned(c) THEN c
          ELSE Return(JsArray(<<Js(body.type), c.value[1]>>))

\* the content of a compressed body of one of the modelled kinds
decompressContent(type, content) ==
  CASE type = REQUEST_TERMS -> Claim_decompress(content)
    [] type = REQUEST_ATTESTATION_FOR_CLAIM ->
         LET r == RequestForAttestation_decompress(content.array[1])
             q == IF Truthy(content.array[2])
                    THEN decompressQuoteAgreement(content.array[2])
                    ELSE Return(undefined)
         IN IF ~Returned(r) THEN r
            ELSE IF ~Returned(q) THEN q
            ELSE Return([requestForAttestation |-> r.value[1],
                         quote |-> q.value[1],
                         prerequisiteClaims |-> content.array[3]])
    [] type = SUBMIT_ATTESTATION_FOR_CLAIM ->
         LET a == Attestation_decompress(content)
         IN IF ~Returned(a) THEN a
            ELSE Return([attestation |-> a.value[1]])
    [] type = REQUEST_CLAIMS_FOR_CTYPES ->
         MapAll([i \in 1..Len(content.array) |->
                   Return([cTypeHash |-> content.array[i].array[1],
                           acceptedAttester |-> content.array[i].array[2],
                           requiredProperties |-> content.array[i].array[3]])])
    [] type = SUBMIT_CLAIMS_FOR_CTYPES_CLASSIC ->
         MapAll([i \in 1..Len(content.array) |->
                   AttestedClaim_decompress(content.array[i])])
    [] type = INFORM_CREATE_DELEGATION ->
         Return([delegationId |-> content.array[1], isPCR |-> content.array[2]])

\* the tag of a compressed body: undefined when the array is empty
TagOf(body) == IF Len(body.array) = 0 THEN undefined ELSE body.array[1]

\* MessageUtils.decompressMessage([tag, content])
MessageUtils_decompressMessage(body) ==
  IF typeof(TagOf(body)) # "string" \/ TagOf(body).js \notin BodyTypes
    THEN Throw("ERROR_MESSAGE_BODY_MALFORMED", "")
  ELSE LET c == decompressContent(TagOf(body).js, body.array[2])
       IN IF ~Returned(c) THEN c
          ELSE Return([type |-> TagOf(body).js, content |-> c.value[1]])

\* ------------------------------------------------------- codec call inputs
\* longest list content
MaxList == 2

\* the arrays of at most MaxList elements of a set
ListsOf(S) == UNION {{JsArray(l) : l \in [1..n -> S]} : n \in 0..MaxList}

PartialClaims ==
  [cTypeHash : {Js("0xctype")},
   owner : {undefined, Js("5alice")},
   contents : {undefined, [name |-> Js("Bob")]}]

Requests ==
  [claim : {c \in PartialClaims : (c.owner = undefined) = (c.contents = undefined)},
   rootHash : {Js("0xroot")}]

AttestedClaims ==
  [request : Requests,
   attestation : {a \in AttestationInputs :
                    /\ a.claimHash = Js("0xclaim")
                    /\ a.cTypeHash = Js("0xctype")
                    /\ a.owner = Js("5alice")
                    /\ \/ a.revoked = false /\ a.delegationId = null
                       \/ a.revoked = true /\ a.delegationId = Js("0xdeleg")
                       \/ a.revoked = undefined /\ a.delegationId = null}]

CTypeRequests ==
  [cTypeHash : {Js("0xctype"), Js("0xclaim")},
   acceptedAttester : {JsArray(<<Js("5alice")>>)},
   requiredProperties : {JsArray(<<Js("id"), Js("name")>>)}]

\* the contents of the message bodies handed to compressMessage
ContentsOf(type) ==
  CASE type = REQUEST_TERMS -> PartialClaims
    [] type = REQUEST_ATTESTATION_FOR_CLAIM ->
         [requestForAttestation : Requests,
          quote : {undefined} \cup
                  {q \in QuoteAgreementInputs :
                     /\ q.attesterAddress # undefined
                     /\ q.currency # Js("")
                     /\ q.timeframe # undefined},
          prerequisiteClaims : {undefined}]
    [] type = SUBMIT_ATTESTATION_FOR_CLAIM -> [attestation : AttestationInputs]
    [] type = REQUEST_CLAIMS_FOR_CTYPES -> ListsOf(CTypeRequests)
    [] type = SUBMIT_CLAIMS_FOR_CTYPES_CLASSIC -> ListsOf(AttestedClaims)
    [] type = INFORM_CREATE_DELEGATION ->
         [delegationId : {Js("0xdeleg")}, isPCR : {true, false}]
    [] OTHER -> {Js(""), JsArray(<<>>)}

\* types that are not in the enumeration ("undefined": the body has no type)
UnknownKinds == {UnknownKind, "", "Message.BodyType", "undefined"}

MessageBodies ==
  UNION {{[type |-> t, content |-> c] : c \in ContentsOf(t)} :
           t \in CodecKinds \cup UnknownKinds}

\* compressed bodies handed to decompressMessage as they arrive
CompressedMessageBodies ==
  {JsArray(<<Js(t), JsArray(<<>>)>>) : t \in UnknownKinds \ {"undefined"}}
    \cup {JsArray(<<>>), JsArray(<<undefined, JsArray(<<>>)>>),
          JsArray(<<null, JsArray(<<>>)>>)}
    \cup {JsArray(<<Js(SUBMIT_ATTESTATION_FOR_CLAIM), t>>) : t \in AttestationTuples}
    \cup {JsArray(<<Js(REQUEST_CLAIMS_FOR_CTYPES), l>>) :
            l \in ListsOf({JsArray(<<r.cTypeHash, r.acceptedAttester,
                                     r.requiredProperties>>) : r \in CTypeRequests})}

\* ------------------------------------------------------------ codec calls
messageVars ==
  <<phase, args, msg, ctor, encCount, sent, wire, tampers, result, ownerCheck>>

LastCall == codec[Len(codec)]

\* what a call of fn can be given: a fresh input, or what the preceding call
\* of the inverse function returned
InputsOf(inverse, fresh) ==
  IF codec = <<>> THEN fresh
  ELSE IF LastCall.fn = inverse /\ Returned(LastCall.out)
    THEN {LastCall.out.value[1]}
  ELSE {}

Call(fn, input, out) ==
  /\ Len(codec) < MaxCalls
  /\ codec' = Append(codec, [fn |-> fn, in |-> input, out |-> out])
  /\ UNCHANGED <<messageVars, claimCalls, envelopes, promise>>

AttestationErrorCheck ==
  \E a \in InputsOf("none", AttestationInputs) :
    Call("Attestation.errorCheck", a, errorCheck(a))

AttestationCompress ==
  \E a \in InputsOf("Attestation.decompress", AttestationInputs) :
    Call("Attestation.compress", a, Attestation_compress(a))

AttestationDecompress ==
  \E t \in InputsOf("Attestation.compress", AttestationTuples) :
    Call("Attestation.decompress", t, Attestation_decompress(t))

CostCompress ==
  \E c \in InputsOf("decompressCost", CostInputs \ {undefined}) :
    Call("compressCost", c, compressCost(c))

CostDecompress ==
  \E t \in InputsOf("compressCost", CostTuples) :
    Call("decompressCost", t, decompressCost(t))

QuoteCompress ==
  \E q \in InputsOf("decompressQuote", QuoteInputs) :
    Call("compressQuote", q, compressQuote(q))

QuoteDecompress ==
  \E t \in InputsOf("compressQuote", QuoteTuples) :
    Call("decompressQuote", t, decompressQuote(t))

AttesterSignedQuoteCompress ==
  \E q \in InputsOf("decompressAttesterSignedQuote", AttesterSignedQuoteInputs) :
    Call("compressAttesterSignedQuote", q, compressAttesterSignedQuote(q))

AttesterSignedQuoteDecompress ==
  \E t \in InputsOf("compressAttesterSignedQuote", QuoteTuples) :
    Call("decompressAttesterSignedQuote", t, decompressAttesterSignedQuote(t))

QuoteAgreementCompress ==
  \E q \in InputsOf("decompressQuoteAgreement", QuoteAgreementInputs) :
    Call("compressQuoteAgreement", q, compressQuoteAgreement(q))

QuoteAgreementDecompress ==
  \E t \in InputsOf("compressQuoteAgreement", QuoteTuples) :
    Call("decompressQuoteAgreement", t, decompressQuoteAgreement(t))

MessageCompress ==
  \E b \in InputsOf("decompressMessage", MessageBodies) :
    Call("compressMessage", b, MessageUtils_compressMessage(b))

MessageDecompress ==
  \E t \in InputsOf("compressMessage", CompressedMessageBodies) :
    Call("decompressMessage", t, MessageUtils_decompressMessage(t))

NextCodec ==
  \/ AttestationErrorCheck
  \/ AttestationCompress
  \/ AttestationDecompress
  \/ CostCompress
  \/ CostDecompress
  \/ QuoteCompress
  \/ QuoteDecompress
  \/ AttesterSignedQuoteCompress
  \/ AttesterSignedQuoteDecompress
  \/ QuoteAgreementCompress
  \/ QuoteAgreementDecompress
  \/ MessageCompress
  \/ MessageDecompress

SpecCodec == Init /\ [][NextCodec]_vars

\* the codec calls made so far, by position
Calls == 1..Len(codec)

CallsOf(fn) == {i \in Calls : codec[i].fn = fn}

CodecTypeOK == Len(codec) <= MaxCalls

\* ----------------------------------------------------- codec properties
\* records that satisfy their type declarations
ValidAttestation(a) ==
  /\ typeof(a.claimHash) = "string" /\ a.claimHash.js \in HashStrings
  /\ typeof(a.cTypeHash) = "string" /\ a.cTypeHash.js \in HashStrings
  /\ typeof(a.owner) = "string" /\ a.owner.js \in Addresses
  /\ typeof(a.revoked) = "boolean"
  /\ typeof(a.delegationId) = "string" \/ a.delegationId = null

ValidCost(c) ==
  /\ DOMAIN c = {"gross", "net", "tax"}
  /\ typeof(c.gross) = "number"
  /\ typeof(c.net) = "number"
  /\ typeof(c.tax) = "object" /\ c.tax # null

ValidQuoteAgreement(q) ==
  /\ typeof(q.attesterAddress) = "string" /\ q.attesterAddress.js \in Addresses
  /\ typeof(q.cTypeHash) = "string" /\ q.cTypeHash.js \in HashStrings
  /\ ValidCost(q.cost)
  /\ typeof(q.currency) = "string" /\ q.currency # Js("")
  /\ typeof(q.termsAndConditions) = "string"
  /\ typeof(q.timeframe) = "string"
  /\ typeof(q.attesterSignature) = "string"
  /\ typeof(q.claimerSignature) = "string"
  /\ typeof(q.rootHash) = "string"

ValidRequest(r) ==
  /\ typeof(r.claim.cTypeHash) = "string"
  /\ typeof(r.claim.owner) = "string"
  /\ r.claim.contents # undefined
  /\ typeof(r.rootHash) = "string"

ValidBody(b) ==
  CASE b.type = REQUEST_TERMS -> typeof(b.content.cTypeHash) = "string"
    [] b.type = REQUEST_ATTESTATION_FOR_CLAIM ->
         /\ ValidRequest(b.content.requestForAttestation)
         /\ b.content.quote # undefined => ValidQuoteAgreement(b.content.quote)
    [] b.type = SUBMIT_ATTESTATION_FOR_CLAIM ->
         ValidAttestation(b.content.attestation)
    [] b.type = REQUEST_CLAIMS_FOR_CTYPES -> TRUE
    [] b.type = SUBMIT_CLAIMS_FOR_CTYPES_CLASSIC ->
         \A e \in Range(b.content.array) :
           ValidRequest(e.request) /\ ValidAttestation(e.attestation)
    [] b.type = INFORM_CREATE_DELEGATION -> TRUE
    [] OTHER -> FALSE

\* C12: for every valid body x of a supported kind, compressMessage(x) is
\* the pair [x.type, compressed content], decompressMessage of it equals x,
\* and compressing that again gives the same compressed body.
C12_PayloadRoundTrip ==
  \A i \in CallsOf("compressMessage") :
    ValidBody(codec[i].in) =>
      /\ Returned(codec[i].out)
      /\ Len(codec[i].out.value[1].array) = 2
      /\ codec[i].out.value[1].array[1] = Js(codec[i].in.type)
      /\ i + 1 \in Calls =>
           /\ codec[i + 1].fn = "decompressMessage"
           /\ codec[i + 1].out = Return(codec[i].in)
      /\ i + 2 \in Calls =>
           /\ codec[i + 2].fn = "compressMessage"
           /\ codec[i + 2].out = codec[i].out

\* a compressed body whose tag is unknown, empty or missing
UnknownTag(t) ==
  \/ Len(t.array) = 0
  \/ t.array[1] \notin {Js(k) : k \in BodyTypes}

MALFORMED == Throw("ERROR_MESSAGE_BODY_MALFORMED", "")

\* C13: compressMessage on a body whose type is not one of the defined
\* kinds, and decompressMessage on a pair whose tag is unknown, empty or
\* missing, both throw ERROR_MESSAGE_BODY_MALFORMED and return no value.
C13_UnknownKind ==
  /\ \A i \in CallsOf("compressMessage") :
       codec[i].in.type \notin BodyTypes => codec[i].out = MALFORMED
  /\ \A i \in CallsOf("decompressMessage") :
       UnknownTag(codec[i].in) => codec[i].out = MALFORMED

C13_Witness ==
  /\ codec # <<>>
  /\ codec[1].fn = "decompressMessage"
  /\ codec[1].in = JsArray(<<Js(UnknownKind), JsArray(<<>>)>>)
  /\ codec[1].out.error = "ERROR_MESSAGE_BODY_MALFORMED"
  /\ codec[1].out.value = <<>>

\* the compression of one element of a list-valued content
CompressedElement(type, e) ==
  IF type = REQUEST_CLAIMS_FOR_CTYPES
    THEN JsArray(<<e.cTypeHash, e.acceptedAttester, e.requiredProperties>>)
    ELSE JsArray(<<JsArray(<<JsArray(<<e.request.claim.cTypeHash,
                                       e.request.claim.owner,
                                       e.request.claim.contents>>),
                             e.request.rootHash>>),
                   JsArray(<<e.attestation.claimHash, e.attestation.cTypeHash,
                             e.attestation.owner, e.attestation.revoked,
                             e.attestation.delegationId>>)>>)

ListKinds == {REQUEST_CLAIMS_FOR_CTYPES, SUBMIT_CLAIMS_FOR_CTYPES_CLASSIC}

ArityOf(fn) ==
  CASE fn \in {"Attestation.compress", "Attestation.decompress"} -> 5
    [] fn \in {"compressCost", "decompressCost"} -> 3
    [] fn \in {"compressQuote", "decompressQuote"} -> 6
    [] fn \in {"compressAttesterSignedQuote", "decompressAttesterSignedQuote"} -> 7
    [] fn \in {"compressQuoteAgreement", "decompressQuoteAgreement"} -> 9

\* C15: every tuple a compress function returns has the fixed length of its
\* type, and an optional field that is absent keeps its position as
\* undefined or null: delegationId of an attestation, claimerSignature and
\* rootHash of a quote agreement, owner and contents of a partial claim.
C15_ConstantArity ==
  /\ \A i \in Calls :
       (codec[i].fn \in {"Attestation.compress", "compressCost", "compressQuote",
                         "compressAttesterSignedQuote", "compressQuoteAgreement"}
          /\ Returned(codec[i].out))
       => Len(codec[i].out.value[1].array) = ArityOf(codec[i].fn)
  /\ \A i \in CallsOf("Attestation.compress") :
       Returned(codec[i].out) =>
         codec[i].out.value[1].array[5] = codec[i].in.delegationId
  /\ \A i \in CallsOf("compressQuoteAgreement") :
       Returned(codec[i].out) =>
         /\ codec[i].out.value[1].array[8] = codec[i].in.claimerSignature
         /\ codec[i].out.value[1].array[9] = codec[i].in.rootHash
  /\ \A i \in CallsOf("compressMessage") :
       (codec[i].in.type = REQUEST_TERMS /\ Returned(codec[i].out)) =>
         codec[i].out.value[1].array[2] =
           JsArray(<<codec[i].in.content.cTypeHash, codec[i].in.content.owner,
                     codec[i].in.content.contents>>)

C15_Witness ==
  /\ codec # <<>>
  /\ codec[1].fn = "Attestation.compress"
  /\ codec[1].in.delegationId = null
  /\ Returned(codec[1].out)
  /\ Len(codec[1].out.value[1].array) = 5
  /\ codec[1].out.value[1].array[5] = null

\* C16: Attestation compress throws when cTypeHash, claimHash or owner is
\* absent or falsy or when revoked is not a boolean; for an attestation
\* with well-formed hashes and owner and a boolean revoked (false included)
\* it returns [claimHash, cTypeHash, owner, revoked, delegationId].
C16_AttestationCompressValidates ==
  \A i \in CallsOf("Attestation.compress") :
    LET a == codec[i].in
    IN /\ (\/ ~Truthy(a.cTypeHash) \/ ~Truthy(a.claimHash)
           \/ ~Truthy(a.owner) \/ typeof(a.revoked) # "boolean")
          => /\ ~Returned(codec[i].out)
             /\ codec[i].out.value = <<>>
       /\ ~Truthy(a.cTypeHash) =>
            codec[i].out.error = "ERROR_CTYPE_HASH_NOT_PROVIDED"
       /\ (/\ a.cTypeHash = Js("0xctype") /\ a.claimHash = Js("0xclaim")
           /\ a.owner = Js("5alice") /\ a.revoked \in {true, false})
          => codec[i].out = Return(JsArray(<<a.claimHash, a.cTypeHash, a.owner,
                                             a.revoked, a.delegationId>>))

C16_Witness ==
  /\ codec # <<>>
  /\ codec[1].fn = "Attestation.compress"
  /\ codec[1].in.revoked = false
  /\ Returned(codec[1].out)
  /\ codec[1].out.value[1].array[4] = false

\* C17: Attestation decompress throws ERROR_DECOMPRESSION_ARRAY when its
\* input is not an array or has a length other than 5, and for a 5-element
\* array t returns {claimHash: t[0], cTypeHash: t[1], owner: t[2],
\* revoked: t[3], delegationId: t[4]}.
C17_AttestationDecompressShape ==
  \A i \in CallsOf("Attestation.decompress") :
    LET t == codec[i].in
    IN IF DOMAIN t = {"array"} /\ Len(t.array) = 5
         THEN /\ Returned(codec[i].out)
              /\ codec[i].out.value[1].claimHash = t.array[1]
              /\ codec[i].out.value[1].cTypeHash = t.array[2]
              /\ codec[i].out.value[1].owner = t.array[3]
              /\ codec[i].out.value[1].revoked = t.array[4]
              /\ codec[i].out.value[1].delegationId = t.array[5]
              /\ DOMAIN codec[i].out.value[1] =
                   {"claimHash", "cTypeHash", "owner", "revoked", "delegationId"}
         ELSE /\ codec[i].out.error = "ERROR_DECOMPRESSION_ARRAY"
              /\ codec[i].out.value = <<>>

C17_Witness ==
  /\ codec # <<>>
  /\ codec[1].fn = "Attestation.decompress"
  /\ Array_isArray(codec[1].in)
  /\ Len(codec[1].in.array) = 5
  /\ codec[1].in.array[4] = false
  /\ Returned(codec[1].out)
  /\ codec[1].out.value[1].revoked = false

\* a 5-tuple whose elements are those of a valid attestation
WellFormedAttestationTuple(t) ==
  /\ DOMAIN t = {"array"}
  /\ Len(t.array) = 5
  /\ ValidAttestation([claimHash |-> t.array[1], cTypeHash |-> t.array[2],
                       owner |-> t.array[3], revoked |-> t.array[4],
                       delegationId |-> t.array[5]])

\* C18: for every valid attestation a, decompress(compress(a)) = a, and for
\* every well-formed 5-tuple t, compress(decompress(t)) = t.
C18_AttestationRoundTrip ==
  /\ \A i \in CallsOf("Attestation.compress") :
       ValidAttestation(codec[i].in) =>
         /\ Returned(codec[i].out)
         /\ i + 1 \in Calls =>
              /\ codec[i + 1].fn = "Attestation.decompress"
              /\ codec[i + 1].out = Return(codec[i].in)
  /\ \A i \in CallsOf("Attestation.decompress") :
       WellFormedAttestationTuple(codec[i].in) =>
         /\ Returned(codec[i].out)
         /\ i + 1 \in Calls =>
              /\ codec[i + 1].fn = "Attestation.compress"
              /\ codec[i + 1].out = Return(codec[i].in)

C18_Witness ==
  /\ Len(codec) = 3
  /\ codec[1].fn = "Attestation.compress"
  /\ ValidAttestation(codec[1].in)
  /\ codec[1].in.delegationId = null
  /\ codec[2].out = Return(codec[1].in)
  /\ codec[3].out = codec[1].out

\* C19: for an attestation that is valid in its other fields, errorCheck
\* and compress throw ERROR_DELEGATION_ID_TYPE when delegationId is neither
\* a string nor null, and accept it when it is a string or null.
C19_DelegationIdChecked ==
  \A i \in CallsOf("Attestation.errorCheck") \cup CallsOf("Attestation.compress") :
    LET a == codec[i].in
    IN ValidAttestation([a EXCEPT !.delegationId = null]) =>
         IF typeof(a.delegationId) = "string" \/ a.delegationId = null
           THEN Returned(codec[i].out)
           ELSE codec[i].out.error = "ERROR_DELEGATION_ID_TYPE"

\* the fields of a quote agreement in the order of the compressed tuple
QuoteFields ==
  <<"attesterAddress", "cTypeHash", "cost", "currency", "termsAndConditions",
    "timeframe", "attesterSignature", "claimerSignature", "rootHash">>

IsArrayOf(v, n) == DOMAIN v = {"array"} /\ Len(v.array) = n

\* C20: decompressCost, decompressQuote, decompressAttesterSignedQuote and
\* decompressQuoteAgreement throw ERROR_DECOMPRESSION_ARRAY when the input
\* is not an array of 3, 6, 7 and 9 elements respectively, or when the
\* nested cost at index 2 is not an array of 3 elements; otherwise they
\* return the record whose fields are the elements in the fixed order, the
\* cost being {gross, net, tax}.
C20_QuoteDecompressShape ==
  /\ \A i \in CallsOf("decompressCost") :
       LET t == codec[i].in
       IN IF IsArrayOf(t, 3)
            THEN codec[i].out = Return([gross |-> t.array[1], net |-> t.array[2],
                                        tax |-> t.array[3]])
            ELSE /\ codec[i].out.error = "ERROR_DECOMPRESSION_ARRAY"
                 /\ codec[i].out.value = <<>>
  /\ \A i \in Calls :
       codec[i].fn \in {"decompressQuote", "decompressAttesterSignedQuote",
                        "decompressQuoteAgreement"} =>
         LET t == codec[i].in
             n == ArityOf(codec[i].fn)
         IN IF IsArrayOf(t, n) /\ IsArrayOf(t.array[3], 3)
              THEN /\ Returned(codec[i].out)
                   /\ DOMAIN codec[i].out.value[1] = {QuoteFields[k] : k \in 1..n}
                   /\ \A k \in (1..n) \ {3} :
                        codec[i].out.value[1][QuoteFields[k]] = t.array[k]
                   /\ codec[i].out.value[1].cost =
                        [gross |-> t.array[3].array[1],
                         net |-> t.array[3].array[2],
                         tax |-> t.array[3].array[3]]
              ELSE /\ codec[i].out.error = "ERROR_DECOMPRESSION_ARRAY"
                   /\ codec[i].out.value = <<>>

C20_Witness ==
  /\ codec # <<>>
  /\ codec[1].fn = "decompressQuoteAgreement"
  /\ IsArrayOf(codec[1].in, 9)
  /\ Returned(codec[1].out)
  /\ codec[1].out.value[1].rootHash = Js("0xroot")
  /\ codec[1].out.value[1].cost.gross = Js("23.5")

\* the record codecs and the record type each of them handles
RecordTypeOf(fn) ==
  CASE fn \in {"Attestation.compress", "Attestation.decompress"} -> "Attestation"
    [] fn \in {"compressCost", "decompressCost"} -> "Cost Breakdown"
    [] fn \in {"compressQuote", "decompressQuote"} -> "Quote"
    [] fn \in {"compressAttesterSignedQuote", "decompressAttesterSignedQuote"} ->
         "Attester Signed Quote"
    [] fn \in {"compressQuoteAgreement", "decompressQuoteAgreement"} ->
         "Quote Agreement"

RecordCodecs ==
  {"Attestation.compress", "Attestation.decompress", "compressCost",
   "decompressCost", "compressQuote", "decompressQuote",
   "compressAttesterSignedQuote", "decompressAttesterSignedQuote",
   "compressQuoteAgreement", "decompressQuoteAgreement"}

\* C21: every malformed-record error (ERROR_COMPRESS_OBJECT) and every
\* array-shape error (ERROR_DECOMPRESSION_ARRAY) thrown by a record codec
\* names a record type: the type of the codec, or Cost Breakdown when the
\* nested cost is the offending record.
C21_ErrorsNameRecordType ==
  \A i \in Calls :
    (/\ codec[i].fn \in RecordCodecs
     /\ codec[i].out.error \in {"ERROR_COMPRESS_OBJECT", "ERROR_DECOMPRESSION_ARRAY"})
    => codec[i].out.about \in {RecordTypeOf(codec[i].fn), "Cost Breakdown"}

\* C22: compressQuoteAgreement throws ERROR_COMPRESS_OBJECT whenever one of
\* the nine properties of IQuoteAgreement is missing, and never returns a
\* tuple whose claimerSignature or rootHash is undefined.
C22_QuoteAgreementComplete ==
  \A i \in CallsOf("compressQuoteAgreement") :
    /\ (\E k \in 1..9 : codec[i].in[QuoteFields[k]] = undefined)
       => codec[i].out.error = "ERROR_COMPRESS_OBJECT"
    /\ Returned(codec[i].out) =>
         /\ codec[i].out.value[1].array[8] # undefined
         /\ codec[i].out.value[1].array[9] # undefined

\* quotes that satisfy their type declarations, by the codec they go to
ValidQuote(q, n) ==
  /\ DOMAIN q = {QuoteFields[k] : k \in 1..n}
  /\ typeof(q.attesterAddress) = "string" /\ q.attesterAddress.js \in Addresses
  /\ typeof(q.cTypeHash) = "string" /\ q.cTypeHash.js \in HashStrings
  /\ ValidCost(q.cost)
  /\ \A k \in 4..n : typeof(q[QuoteFields[k]]) = "string" /\ q[QuoteFields[k]] # Js("")

\* a tuple of the right length whose elements are those of a valid quote
WellFormedQuoteTuple(t, n) ==
  /\ IsArrayOf(t, n)
  /\ IsArrayOf(t.array[3], 3)
  /\ ValidQuote([f \in {QuoteFields[k] : k \in 1..n} |->
                   LET k == CHOOSE j \in 1..n : QuoteFields[j] = f
                   IN IF k = 3 THEN [gross |-> t.array[3].array[1],
                                     net |-> t.array[3].array[2],
                                     tax |-> t.array[3].array[3]]
                      ELSE t.array[k]], n)

QuoteCompressors ==
  {"compressQuote", "compressAttesterSignedQuote", "compressQuoteAgreement"}

QuoteDecompressors ==
  {"decompressQuote", "decompressAttesterSignedQuote", "decompressQuoteAgreement"}

\* C23: for every valid Quote, AttesterSignedQuote and QuoteAgreement q,
\* compressX(q) returns the tuple with the cost as [gross, net, tax] and
\* decompressX of it equals q; for every well-formed tuple t of the right
\* length, decompressX(t) returns and compressX of it equals t.
C23_QuoteRoundTrip ==
  \A i \in Calls :
    /\ (codec[i].fn \in QuoteCompressors
        /\ ValidQuote(codec[i].in, ArityOf(codec[i].fn)))
       => /\ Returned(codec[i].out)
          /\ codec[i].out.value[1].array[3] =
               JsArray(<<codec[i].in.cost.gross, codec[i].in.cost.net,
                         codec[i].in.cost.tax>>)
          /\ i + 1 \in Calls => codec[i + 1].out = Return(codec[i].in)
    /\ (codec[i].fn \in QuoteDecompressors
        /\ WellFormedQuoteTuple(codec[i].in, ArityOf(codec[i].fn)))
       => /\ Returned(codec[i].out)
          /\ i + 1 \in Calls => codec[i + 1].out = Return(codec[i].in)

\* a cost object in which gross, net and tax are all present
CompleteCost(c) ==
  /\ DOMAIN c = {"gross", "net", "tax"}
  /\ c.gross # undefined /\ c.net # undefined /\ c.tax # undefined

\* C28: compressCost throws ERROR_COMPRESS_OBJECT exactly when gross, net
\* or tax is missing; a cost with all three present, 0 included, compresses
\* to [gross, net, tax] and decompressCost restores it.
C28_CostZeroAccepted ==
  \A i \in CallsOf("compressCost") :
    IF CompleteCost(codec[i].in)
      THEN /\ codec[i].out = Return(JsArray(<<codec[i].in.gross, codec[i].in.net,
                                              codec[i].in.tax>>))
           /\ i + 1 \in Calls => codec[i + 1].out = Return(codec[i].in)
      ELSE codec[i].out.error = "ERROR_COMPRESS_OBJECT"

\* the kinds whose content declares an owner that ensureOwnerIsSender reads
OwnerBoundKinds ==
  {REQUEST_ATTESTATION_FOR_CLAIM, SUBMIT_ATTESTATION_FOR_CLAIM,
   SUBMIT_CLAIMS_FOR_CTYPES_CLASSIC}

\* C29: for a body of any kind other than REQUEST_ATTESTATION_FOR_CLAIM,
\* SUBMIT_ATTESTATION_FOR_CLAIM and SUBMIT_CLAIMS_FOR_CTYPES_CLASSIC,
\* Message.ensureOwnerIsSender returns without raising, whatever owner the
\* content carries and whatever senderAddress is.
C29_OtherKindsUnchecked ==
  (/\ ownerCheck # <<>>
   /\ ownerCheck[1].body.syntax = "object"
   /\ ownerCheck[1].body.type \in BodyTypes \ OwnerBoundKinds)
  => ownerCheck[1].outcome = "ok"

C29_Witness ==
  /\ ownerCheck # <<>>
  /\ ownerCheck[1].body.type = "submit-claims-for-ctypes-pe"
  /\ ownerCheck[1].body.owners # <<>>
  /\ ownerCheck[1].body.owners[1] # ownerCheck[1].senderAddress
  /\ ownerCheck[1].outcome = "ok"

OnlyReceiverAddressChanged ==
  /\ wire # <<>>
  /\ sent # <<>>
  /\ wire[1].receiverAddress # sent[1].receiverAddress
  /\ \A f \in WireFields \ {"receiverAddress"} : wire[1][f] = sent[1][f]

\* C30: receiverAddress is not bound: changing it leaves hash and signature
\* valid, envelopes that differ only in it have the same Message.decrypt
\* outcome for the same receiver, whoever that receiver is, and the
\* returned envelope carries the receiverAddress that was received.
C30_ReceiverAddressUnbound ==
  /\ OnlyReceiverAddressChanged =>
       /\ HashConsistent(wire[1])
       /\ SignedBySender(wire[1])
  /\ result # <<>> =>
       /\ \A a \in Addresses :
            LET other == decrypt([wire[1] EXCEPT !.receiverAddress = a],
                                 result[1].receiver)
            IN /\ other.status = result[1].out.status
               /\ other.error = result[1].out.error
               /\ other.calls = result[1].out.calls
               /\ other.status = "ok" =>
                    /\ other.returned[1].body = result[1].out.returned[1].body
                    /\ other.returned[1].receiverAddress = a
       /\ result[1].out.status = "ok" =>
            result[1].out.returned[1].receiverAddress = wire[1].receiverAddress

C30_Witness ==
  /\ result # <<>>
  /\ OnlyReceiverAddressChanged
  /\ wire[1].receiverAddress # AddressOf[result[1].receiver]
  /\ result[1].out.status = "ok"
  /\ result[1].out.returned[1].receiverAddress = wire[1].receiverAddress

\* ================================================================== Claim
\* number of Claim constructions in a row
MaxConstructions == 2

\* CType schemas: the type each property must have
NameSchema == [properties |-> [name |-> "string"]]

AgeSchema == [properties |-> [age |-> "number"]]

\* the schema a cTypeHash refers to
SchemaOf(cTypeHash) ==
  IF cTypeHash = Js("0xctype") THEN NameSchema ELSE AgeSchema

\* CTypeUtils.verifyClaimStructure(claimContents, schema)
verifyClaimStructure(claimContents, schema) ==
  \A k \in DOMAIN claimContents :
    /\ k \in DOMAIN schema.properties
    /\ typeof(claimContents[k]) = schema.properties[k]

\* verifyClaim(claimContents, cTypeSchema)
verifyClaim(claimContents, cTypeSchema) ==
  verifyClaimStructure(claimContents, cTypeSchema)

\* CTypeUtils.validateNestedSchemas(schema, nestedCTypes, claimContents)
validateNestedSchemas(schema, nestedCType, claimContents) ==
  verifyClaimStructure(claimContents, schema)

\* ClaimUtils.errorCheck(input): the fields are present and well-formed; the
\* contents are not compared with any schema
ClaimUtils_errorCheck(input) ==
  IF ~Truthy(input.cTypeHash) THEN Throw("ERROR_CTYPE_HASH_NOT_PROVIDED", "")
  ELSE IF ~Returned(validateAddress(input.owner, "Claim owner"))
    THEN validateAddress(input.owner, "Claim owner")
  ELSE IF \E k \in DOMAIN input.contents :
            typeof(input.contents[k]) \notin {"string", "number", "boolean", "object"}
    THEN Throw("ERROR_CLAIM_CONTENTS_MALFORMED", "")
  ELSE validateHash(input.cTypeHash, "Claim CType")

\* new Claim(claimInput)
Claim_new(claimInput) ==
  IF ~Returned(ClaimUtils_errorCheck(claimInput))
    THEN ClaimUtils_errorCheck(claimInput)
  ELSE Return([cTypeHash |-> claimInput.cTypeHash,
               contents |-> claimInput.contents,
               owner |-> claimInput.owner])

Claim_fromClaim(claimInput, cTypeSchema) ==
  IF ~verifyClaim(claimInput.contents, cTypeSchema)
    THEN Throw("ERROR_CLAIM_UNVERIFIABLE", "")
  ELSE Claim_new(claimInput)

Claim_fromNestedCTypeClaim(cTypeInput, nestedCType, claimContents, claimOwner) ==
  IF ~validateNestedSchemas(cTypeInput.schema, nestedCType, claimContents)
    THEN Throw("ERROR_NESTED_CLAIM_UNVERIFIABLE", "")
  ELSE Claim_new([cTypeHash |-> cTypeInput.hash, contents |-> claimContents,
                  owner |-> claimOwner])

Claim_fromCTypeAndClaimContents(ctypeInput, claimContents, claimOwner) ==
  IF Truthy(ctypeInput.schema) /\ ~verifyClaim(claimContents, ctypeInput.schema)
    THEN Throw("ERROR_CLAIM_UNVERIFIABLE", "")
  ELSE Claim_new([cTypeHash |-> ctypeInput.hash, contents |-> claimContents,
                  owner |-> claimOwner])

\* inputs of the constructors
ClaimContents ==
  {[name |-> Js("Bob")], [name |-> Js("23.4")], [age |-> Js("23.4")]}

ClaimInputs ==
  [cTypeHash : {undefined, Js("0xctype"), Js("0xctype2")},
   contents : ClaimContents,
   owner : {Js("5alice")}]

CTypeSchemas == {NameSchema, AgeSchema}

\* CTypes with their schema, and the same CTypes without a schema
CTypeInputs ==
  {[hash |-> h, schema |-> SchemaOf(h)] : h \in {Js("0xctype"), Js("0xctype2")}}
    \cup {[hash |-> h, schema |-> undefined] : h \in {Js("0xctype"), Js("0xctype2")}}

ConstructorCall(fn, input, out) ==
  /\ Len(claimCalls) < MaxConstructions
  /\ claimCalls' = Append(claimCalls, [fn |-> fn, in |-> input, out |-> out])
  /\ UNCHANGED <<messageVars, codec, envelopes, promise>>

NewClaim ==
  \E claimInput \in ClaimInputs :
    ConstructorCall("new Claim", [claimInput |-> claimInput], Claim_new(claimInput))

FromClaim ==
  \E claimInput \in ClaimInputs, cTypeSchema \in CTypeSchemas :
    ConstructorCall("Claim.fromClaim",
                    [claimInput |-> claimInput, cTypeSchema |-> cTypeSchema],
                    Claim_fromClaim(claimInput, cTypeSchema))

FromNestedCTypeClaim ==
  \E cTypeInput \in {c \in CTypeInputs : c.schema # undefined},
     claimContents \in ClaimContents :
    ConstructorCall("Claim.fromNestedCTypeClaim",
                    [cTypeInput |-> cTypeInput, claimContents |-> claimContents],
                    Claim_fromNestedCTypeClaim(cTypeInput, <<NameSchema>>,
                                               claimContents, Js("5alice")))

FromCTypeAndClaimContents ==
  \E ctypeInput \in CTypeInputs, claimContents \in ClaimContents :
    ConstructorCall("Claim.fromCTypeAndClaimContents",
                    [ctypeInput |-> ctypeInput, claimContents |-> claimContents],
                    Claim_fromCTypeAndClaimContents(ctypeInput, claimContents,
                                                    Js("5alice")))

NextClaim ==
  \/ NewClaim
  \/ FromClaim
  \/ FromNestedCTypeClaim
  \/ FromCTypeAndClaimContents

SpecClaim == Init /\ [][NextClaim]_vars

\* C24: every Claim object a construction path returns has contents that
\* validate against the schema its cTypeHash refers to; contents that do
\* not validate make Claim.fromClaim, Claim.fromCTypeAndClaimContents,
\* Claim.fromNestedCTypeClaim and new Claim throw.
C24_ClaimContentsValidated ==
  \A i \in 1..Len(claimCalls) :
    Returned(claimCalls[i].out) =>
      verifyClaimStructure(claimCalls[i].out.value[1].contents,
                           SchemaOf(claimCalls[i].out.value[1].cTypeHash))

\* ==================================================== SubscriptionPromise
\* number of values a subscription is given
MaxValues == 3

RESOLVE == "resolve"

REJECT == "reject"

\* the values passed to subscription
SubscriptionValues == {RESOLVE, REJECT, "something else"}

\* the timeout option: 0 when it is not given
Timeouts == {0, 500}

\* resolveOn: value === RESOLVE
RESOLVE_ON(value) == value = RESOLVE

\* rejectOn: value === REJECT && 'error'
REJECT_ON(value) == IF value = REJECT THEN Js("error") ELSE false

\* a promise settles once: resolve and reject on a settled promise do nothing
Resolve(p, value) ==
  IF p.state = "pending"
    THEN [p EXCEPT !.state = "resolved", !.settledWith = value]
    ELSE p

Reject(p, cause) ==
  IF p.state = "pending"
    THEN [p EXCEPT !.state = "rejected", !.settledWith = cause]
    ELSE p

\* a subscription that never asks rejectOn
subscription_IgnoresRejectOn(p, value) ==
  IF RESOLVE_ON(value) THEN Resolve(p, value) ELSE p

\* subscription(value) of makeSubscriptionPromise({resolveOn, rejectOn, timeout})
subscription(p, value) ==
  IF Truthy(REJECT_ON(value)) THEN Reject(p, REJECT_ON(value).js)
  ELSE IF RESOLVE_ON(value) THEN Resolve(p, value)
  ELSE p

\* a timeout callback that does nothing
onTimeout_Ignored(p) == p

\* the callback given to setTimeout
onTimeout(p) == Reject(p, "ERROR_TIMEOUT")

promiseOthers == <<messageVars, codec, claimCalls, envelopes>>

\* makeSubscriptionPromise({resolveOn: RESOLVE_ON, rejectOn: REJECT_ON, timeout})
MakeSubscriptionPromise ==
  /\ promise = <<>>
  /\ \E timeout \in Timeouts :
       promise' = <<[timeout |-> timeout, state |-> "pending", settledWith |-> "",
                     delivered |-> <<>>,
                     timer |-> IF timeout > 0 THEN "armed" ELSE "none",
                     firedAfter |-> 0]>>
  /\ UNCHANGED promiseOthers

\* the caller hands a value to subscription
Subscription ==
  /\ promise # <<>>
  /\ Len(promise[1].delivered) < MaxValues
  /\ \E value \in SubscriptionValues :
       promise' = <<[subscription(promise[1], value) EXCEPT
                       !.delivered = Append(promise[1].delivered, value)]>>
  /\ UNCHANGED promiseOthers

\* the timeout elapses and the event loop runs the timer callback
TimerFires ==
  /\ promise # <<>>
  /\ promise[1].timer = "armed"
  /\ promise' = <<[onTimeout(promise[1]) EXCEPT
                     !.timer = "fired",
                     !.firedAfter = Len(promise[1].delivered)]>>
  /\ UNCHANGED promiseOthers

NextPromise ==
  \/ MakeSubscriptionPromise
  \/ Subscription
  \/ TimerFires

SpecPromise == Init /\ [][NextPromise]_vars

\* the event loop runs every timer callback that is due
SpecPromiseLive == SpecPromise /\ WF_vars(TimerFires)

\* the positions of the delivered values that resolveOn or rejectOn accepts
Decisive(p) ==
  {i \in 1..Len(p.delivered) : p.delivered[i] \in {RESOLVE, REJECT}}

FirstDecisive(p) == CHOOSE i \in Decisive(p) : \A j \in Decisive(p) : i <= j

\* the timer fired before any decisive value was delivered
TimedOutFirst(p) ==
  /\ p.timer = "fired"
  /\ \A i \in Decisive(p) : i > p.firedAfter

\* C26: as long as the timeout has not elapsed first, the promise is settled
\* by the first value that resolveOn or rejectOn accepts: resolved with the
\* value when resolveOn holds for it, rejected with the result of rejectOn
\* when that is truthy; values satisfying neither leave it pending.
C26_FirstDecisiveValue ==
  (promise # <<>> /\ ~TimedOutFirst(promise[1])) =>
    LET p == promise[1]
    IN IF Decisive(p) = {}
         THEN p.state = "pending"
         ELSE IF p.delivered[FirstDecisive(p)] = RESOLVE
           THEN p.state = "resolved" /\ p.settledWith = RESOLVE
           ELSE p.state = "rejected" /\ p.settledWith = "error"

C26_Witness ==
  /\ promise # <<>>
  /\ promise[1].delivered = <<"something else", REJECT, RESOLVE>>
  /\ promise[1].state = "rejected"
  /\ promise[1].settledWith = "error"

\* C27: with a timeout, a promise for which no delivered value satisfies
\* resolveOn or rejectOn before the timeout elapses is eventually rejected
\* with ERROR_TIMEOUT, other values having been delivered or not, and stays
\* rejected with it.
C27_TimeoutRejects ==
  /\ [](promise # <<>> =>
          (TimedOutFirst(promise[1]) =>
             /\ promise[1].state = "rejected"
             /\ promise[1].settledWith = "ERROR_TIMEOUT"))
  /\ (promise # <<>> /\ promise[1].timeout > 0 /\ promise[1].state = "pending")
       ~> (promise # <<>> /\ promise[1].state # "pending")
  /\ (promise # <<>> /\ promise[1].timeout > 0 /\ Decisive(promise[1]) = {}
        /\ Len(promise[1].delivered) = MaxValues)
       ~> (promise # <<>> /\ promise[1].state = "rejected"
             /\ promise[1].settledWith = "ERROR_TIMEOUT")

C27_Witness ==
  /\ promise # <<>>
  /\ promise[1].timeout = 500
  /\ promise[1].delivered # <<>>
  /\ promise[1].delivered[1] = "something else"
  /\ promise[1].firedAfter >= 1
  /\ TimedOutFirst(promise[1])
  /\ promise[1].state = "rejected"
  /\ promise[1].settledWith = "ERROR_TIMEOUT"

\* ======================================================= several envelopes
\* the Message objects handled side by side
Slots == 1..Len(<<NoEnvelope, NoEnvelope>>)

\* bodies given to new Message: a structured one and a compressed one
EnvelopeBodies ==
  {JsValue("object", REQUEST_ATTESTATION_FOR_CLAIM, "ok", <<AddressOf["alice"]>>, "value"),
   JsValue("array", SUBMIT_ATTESTATION_FOR_CLAIM, "ok", <<AddressOf["bob"]>>, "value")}

\* bodies given to MessageUtils.compressMessage
EnvelopeCompressBodies == {b \in MessageBodies : b.type = INFORM_CREATE_DELEGATION}

\* fields that are static members of the class: a write reaches every object
StoreAt_Static(all, i, new) == [j \in DOMAIN all |-> new]

\* the fields of a Message are instance fields: a write reaches one object
StoreAt(all, i, new) == [all EXCEPT ![i] = new]

envelopeOthers == <<messageVars, codec, claimCalls, promise>>

\* new Message(body, sender, receiver) for the object in slot i
ConstructEnvelope(i) ==
  /\ envelopes[i].args = <<>>
  /\ \E body \in EnvelopeBodies, sender \in Senders, receiver \in Receivers,
        now \in Times, nonce \in Nonces :
       envelopes' = StoreAt(envelopes, i,
         [envelopes[i] EXCEPT
            !.args = <<[body |-> body, sender |-> sender, receiver |-> receiver,
                        now |-> now, nonce |-> nonce]>>,
            !.msg = NewMessage(body, sender, receiver, now, nonce)])
  /\ UNCHANGED envelopeOthers

\* encrypt() on the object in slot i
EncryptEnvelope(i) ==
  /\ envelopes[i].msg # <<>>
  /\ envelopes[i].sent = <<>>
  /\ envelopes' = StoreAt(envelopes, i,
       [envelopes[i] EXCEPT !.sent = <<encrypt(envelopes[i].msg[1])>>])
  /\ UNCHANGED envelopeOthers

\* Message.decrypt(encrypted, receiver) on what slot i emitted
DecryptEnvelope(i) ==
  /\ envelopes[i].sent # <<>>
  /\ envelopes[i].result = <<>>
  /\ \E receiver \in Ids :
       envelopes' = StoreAt(envelopes, i,
         [envelopes[i] EXCEPT
            !.result = <<[receiver |-> receiver,
                          out |-> decrypt(envelopes[i].sent[1], receiver)]>>])
  /\ UNCHANGED envelopeOthers

\* MessageUtils.compressMessage(body) by the caller that holds slot i
CompressEnvelope(i) ==
  /\ envelopes[i].compressed = <<>>
  /\ \E b \in EnvelopeCompressBodies :
       envelopes' = StoreAt(envelopes, i,
         [envelopes[i] EXCEPT
            !.compressed = <<[in |-> b, out |-> MessageUtils_compressMessage(b)]>>])
  /\ UNCHANGED envelopeOthers

NextEnvelopes ==
  \E i \in Slots :
    \/ ConstructEnvelope(i)
    \/ EncryptEnvelope(i)
    \/ DecryptEnvelope(i)
    \/ CompressEnvelope(i)

SpecEnvelopes == Init /\ [][NextEnvelopes]_vars

\* what an envelope holds when its operations are run with no other envelope
RunAlone(e) ==
  /\ e.msg = IF e.args = <<>> THEN <<>>
             ELSE NewMessage(e.args[1].body, e.args[1].sender, e.args[1].receiver,
                             e.args[1].now, e.args[1].nonce)
  /\ e.sent # <<>> => (e.msg # <<>> /\ e.sent = <<encrypt(e.msg[1])>>)
  /\ e.result # <<>> =>
       /\ e.sent # <<>>
       /\ e.result[1].out = decrypt(e.sent[1], e.result[1].receiver)
  /\ e.compressed # <<>> =>
       e.compressed[1].out = MessageUtils_compressMessage(e.compressed[1].in)

====
